---- MODULE Spec2Model ----
(***************************************************************************)
(* Model of the request-interception and batching layer (ProofMiddleware)  *)
(* of the PROOF Protocol SDK.  Strings are sequences of one-character      *)
(* strings; an exchange is identified by the number it was captured with.  *)
(***************************************************************************)
EXTENDS Integers, Sequences, FiniteSets, TLC

----------------------------------------------------------------------------
(* Bounds of the exploration *)

\* longest request path, counted in characters after the leading "/"
MaxPathLen == 1
\* longest configured pattern, the example patterns aside
MaxPatternLen == 1
\* longest patterns / excludePatterns list
MaxPatterns == 1

SeqsUpTo(S, n) == UNION {[1..k -> S] : k \in 0..n}

PathChars == {"/", "a", "b"}
PatternChars == {"/", "a", "*"}

\* req.path / ctx.path / request.url always begin with "/"
Paths == {<<"/">> \o s : s \in SeqsUpTo(PathChars, MaxPathLen)}
\* the shapes of the documented patterns '/api/*' and '/health'
ExamplePatterns == {<<"/", "a", "*">>, <<"/", "b">>}
Patterns == SeqsUpTo(PatternChars, MaxPatternLen) \cup ExamplePatterns

\* an optional string[] option: absent (undefined) or a list
Absent == [defined |-> FALSE, items |-> <<>>]
ListOf(l) == [defined |-> TRUE, items |-> l]
PatternLists == {Absent} \cup {ListOf(l) : l \in SeqsUpTo(Patterns, MaxPatterns)}

----------------------------------------------------------------------------
(* matchPattern and shouldRecord *)

Includes(str, c) == \E i \in 1..Len(str) : str[i] = c

StartsWith(str, prefix) ==
  /\ Len(prefix) <= Len(str)
  /\ SubSeq(str, 1, Len(prefix)) = prefix

\* pattern.replace(/\*/g, '.*')
RECURSIVE ReplaceStars(_)
ReplaceStars(pattern) ==
  IF pattern = <<>> THEN <<>>
  ELSE IF Head(pattern) = "*" THEN <<".", "*">> \o ReplaceStars(Tail(pattern))
  ELSE <<Head(pattern)>> \o ReplaceStars(Tail(pattern))

\* one regular-expression atom against one character: "." is any character
AtomMatches(atom, c) == atom = "." \/ atom = c

\* new RegExp('^' + source + '$').test(str), for sources made of literal
\* characters, "." and starred atoms
RECURSIVE RegExpTest(_, _)
RegExpTest(source, str) ==
  IF source = <<>> THEN str = <<>>
  ELSE IF Len(source) >= 2 /\ source[2] = "*"
    THEN \/ RegExpTest(SubSeq(source, 3, Len(source)), str)
         \/ /\ str # <<>>
            /\ AtomMatches(source[1], Head(str))
            /\ RegExpTest(source, Tail(str))
    ELSE /\ str # <<>>
         /\ AtomMatches(source[1], Head(str))
         /\ RegExpTest(Tail(source), Tail(str))

matchPattern(path, pattern) ==
  IF Includes(pattern, "*")
    THEN RegExpTest(ReplaceStars(pattern), path)
    ELSE path = pattern \/ StartsWith(path, pattern)

AnyMatch(path, list) == \E i \in 1..Len(list) : matchPattern(path, list[i])

\* variant: include-patterns consulted before exclude-patterns
shouldRecord_IncludeFirst(opts, path) ==
  IF opts.patterns.defined /\ AnyMatch(path, opts.patterns.items)
    THEN TRUE
  ELSE IF opts.excludePatterns.defined /\ AnyMatch(path, opts.excludePatterns.items)
    THEN FALSE
  ELSE ~opts.patterns.defined

shouldRecord(opts, path) ==
  IF opts.excludePatterns.defined /\ AnyMatch(path, opts.excludePatterns.items)
    THEN FALSE
  ELSE IF opts.patterns.defined
    THEN AnyMatch(path, opts.patterns.items)
  ELSE TRUE

----------------------------------------------------------------------------
(* State of one ProofMiddleware instance and of its surroundings *)

VARIABLES
  options,      \* this.options
  batchQueue,   \* this.batchQueue: the queued exchanges, oldest first
  batchTimer,   \* this.batchTimer: NoTimer or the interval handle
  captured,     \* number of qualifying exchanges captured so far
  batchCalls,   \* every client.batchRecord(batch) call and its progress
  recordCalls,  \* every client.record(...) call and its progress
  res,          \* the express request in progress and its response object
  lastOp,       \* the handler that ran last
  lastPath,     \* the path shouldRecord was asked about last
  lastDecision, \* what it answered
  config,       \* ProofClient: this.config
  runs,         \* ProofClient: every record() / batchRecord() call and its progress
  ledger,       \* the token allowance and the transactions the ledger accepted
  archive,      \* the content locators stored by the archive
  env,          \* process.env as the IPFSService reads it
  ipfsCalls,    \* IPFSService: its construction and every upload / retrieve / isAvailable call
  uploadBatchRun, \* IPFSService: the uploadBatch call and its uploads
  requests      \* ProofClient: every verify / grantAccess / revokeAccess / hashData call

middlewareVars == <<options, batchQueue, batchTimer, captured, batchCalls,
                    recordCalls, res, lastPath, lastDecision>>

clientVars == <<config, runs, ledger, archive>>

ipfsVars == <<env, ipfsCalls, uploadBatchRun>>

\* no uploadBatch call yet
NoUploadBatch ==
  [status |-> "idle", count |-> 0, i |-> 0, inFlight |-> {}, completed |-> {},
   failed |-> {}, results |-> <<>>]

\* the IPFSService of a client that nothing has called yet, and no other
\* call of the client made
IpfsIdle ==
  /\ env = [ENCRYPTION_KEY |-> ""]
  /\ ipfsCalls = <<>>
  /\ uploadBatchRun = NoUploadBatch
  /\ requests = <<>>

vars == <<options, batchQueue, batchTimer, captured, batchCalls, recordCalls,
          res, lastOp, lastPath, lastDecision, config, runs, ledger, archive,
          env, ipfsCalls, uploadBatchRun, requests>>

\* exchanges explored per run
MaxEntries == 3

DefaultBatchSize == 100
DefaultBatchInterval == 60000

\* batchInterval / batchSize: 0 stands for "not set" (undefined and 0 are
\* both falsy and take the same branches)
BatchIntervals == {0, 1000}
BatchSizes == {0, 1, 2, 3}

Bodies == {"ok", "err"}
Methods == {"send", "json"}

NoTimer == [armed |-> FALSE, interval |-> 0]
IdleRes == [phase |-> "idle", path |-> <<"/">>, wrapped |-> FALSE,
            nextCalls |-> 0, method |-> "none", given |-> "none",
            forwarded |-> "none", returned |-> <<>>, locals |-> "none"]

\* what the framework's own res.send / res.json returns for a body
OriginalReturn(method, data) == <<"res", method, data>>

----------------------------------------------------------------------------
(* The batching queue *)

\* this.options.batchSize || 100
EffectiveBatchSize(opts) ==
  IF opts.batchSize # 0 THEN opts.batchSize ELSE DefaultBatchSize

\* this.options.batchInterval || 60000
EffectiveInterval(opts) ==
  IF opts.batchInterval # 0 THEN opts.batchInterval ELSE DefaultBatchInterval

\* variant: the interval is computed but no timer is started
startBatchProcessing_NotArmed(opts) ==
  [armed |-> FALSE, interval |-> EffectiveInterval(opts)]

\* startBatchProcessing: (re)arm the recurring timer
startBatchProcessing(opts) == [armed |-> TRUE, interval |-> EffectiveInterval(opts)]

NewCall(batch, trigger) ==
  [batch |-> batch, trigger |-> trigger, result |-> "pending", flush |-> "pending"]

\* variant: the batch is copied but the queue is not reset
processBatch_KeepsQueue(queue, calls, trigger) ==
  IF Len(queue) = 0
    THEN [queue |-> queue, calls |-> calls]
    ELSE [queue |-> queue, calls |-> Append(calls, NewCall(queue, trigger))]

\* variant: no early return on an empty queue
processBatch_NoEmptyCheck(queue, calls, trigger) ==
  [queue |-> <<>>, calls |-> Append(calls, NewCall(queue, trigger))]

\* processBatch up to its first suspension point: the queue is copied and
\* reset, then client.batchRecord is called with the copy
processBatch(queue, calls, trigger) ==
  IF Len(queue) = 0
    THEN [queue |-> queue, calls |-> calls]
    ELSE [queue |-> <<>>, calls |-> Append(calls, NewCall(queue, trigger))]

\* variant: the size limit compared with > instead of >=
addToBatch_OffByOne(opts, queue, calls, entry) ==
  LET pushed == Append(queue, entry) IN
  IF Len(pushed) > EffectiveBatchSize(opts)
    THEN processBatch(pushed, calls, "size")
    ELSE [queue |-> pushed, calls |-> calls]

\* variant: no flush is started while an earlier one is in flight
addToBatch_OneFlushAtATime(opts, queue, calls, entry) ==
  LET pushed == Append(queue, entry) IN
  IF Len(pushed) >= EffectiveBatchSize(opts)
       /\ \A i \in 1..Len(calls) : calls[i].result # "pending"
    THEN processBatch(pushed, calls, "size")
    ELSE [queue |-> pushed, calls |-> calls]

addToBatch(opts, queue, calls, entry) ==
  LET pushed == Append(queue, entry) IN
  IF Len(pushed) >= EffectiveBatchSize(opts)
    THEN processBatch(pushed, calls, "size")
    ELSE [queue |-> pushed, calls |-> calls]

\* variant: the callback waits for a second queued exchange
timerCallback_SkipsSingle(queue, calls) ==
  IF Len(queue) > 1
    THEN processBatch(queue, calls, "timer")
    ELSE [queue |-> queue, calls |-> calls]

\* the setInterval callback
timerCallback(queue, calls) ==
  IF Len(queue) > 0
    THEN processBatch(queue, calls, "timer")
    ELSE [queue |-> queue, calls |-> calls]

\* variant: the retry the catch block leaves out, a failed batch put back
queueAfterSettle_Requeue(queue, batch, result) ==
  IF result = "rejected" THEN batch \o queue ELSE queue

\* processBatch after client.batchRecord settled: both outcomes are logged
\* inside the try/catch, the queue is not touched
queueAfterSettle(queue, batch, result) == queue
flushAfterSettle(result) == "fulfilled"

\* variant: no try/catch, the rejection leaves the hook
handlerAfterSettle_Rethrow(result) ==
  IF result = "rejected" THEN "rejected" ELSE "completed"

\* the hooks' try/catch around recordImmediately
handlerAfterSettle(result) == "completed"

----------------------------------------------------------------------------
(* Configurations *)

NoPatterns == [patterns |-> Absent, excludePatterns |-> Absent]
SomePatterns == [patterns |-> ListOf(<< <<"/", "*">> >>),
                 excludePatterns |-> ListOf(<< <<"/", "b">> >>)]

MakeOptions(interval, size, pats) ==
  [batchInterval |-> interval, batchSize |-> size,
   patterns |-> pats.patterns, excludePatterns |-> pats.excludePatterns]

\* configurations of the middleware runs; without a batch interval the
\* batch size is never read, so only two of its values are explored there
MiddlewareOptions ==
  {o \in {MakeOptions(i, s, p) : i \in BatchIntervals, s \in BatchSizes,
                                 p \in {NoPatterns, SomePatterns}} :
     o.batchInterval # 0 \/ o.batchSize <= 1}

\* configurations of the pattern runs: every pair of pattern lists
PatternOptions ==
  {MakeOptions(0, 0, [patterns |-> p, excludePatterns |-> e]) :
     p \in PatternLists, e \in PatternLists}

\* paths of the requests of the middleware runs
ExchangePaths == {<<"/", "a">>, <<"/", "b">>}

----------------------------------------------------------------------------
(* ProofClient: record() and batchRecord() *)

\* calls of record() / batchRecord() explored per client, overlapping or not
MaxRuns == 2
Runs == 1..MaxRuns

\* number of records of a batchRecord call
BatchCounts == {1, 2}

Undefined == "undefined"
VisibilityLevel == {"PUBLIC", "PRIVATE", "SHARED"}
VisibilityOptions == VisibilityLevel \cup {Undefined}

\* ethers.MaxUint256, scaled down to the integers of the model
MaxUint256 == 2^30 - 1

\* the registry's price per record
RecordPrice == 10

\* allowance the signer has granted the registry before the client starts
InitialAllowances == {0, MaxUint256}

\* the functions a Contract built from each ABI can call
TokenAbi ==
  {"balanceOf", "allowance", "totalSupply", "decimals", "symbol", "name",
   "approve", "transfer", "transferFrom"}

RegistryAbi_WithRecordPrice ==
  {"recordPrice", "baseRecordPrice", "userRecordCount", "verifyRecord",
   "calculateBatchPrice", "getUserRecords", "getStatistics", "getPricingInfo",
   "getCurrentBurnRate", "sharedAccess", "storeAPIRecord", "storeBatchRecords",
   "grantAccess", "revokeAccess"}
RegistryAbi ==
  {"baseRecordPrice", "userRecordCount", "verifyRecord",
   "calculateBatchPrice", "getUserRecords", "getStatistics", "getPricingInfo",
   "getCurrentBurnRate", "sharedAccess", "storeAPIRecord", "storeBatchRecords",
   "grantAccess", "revokeAccess"}

\* calling contract.fn(...): a function of the ABI is sent to the node and
\* its promise is pending; for any other name the Contract has no fragment
\* and the call rejects without reaching the node
contractCall(abi, fn) == IF fn \in abi THEN "pending" ELSE "unsupported"

\* sha256 over the JSON text: equal data, equal fingerprint
hashData_SharedHash(data) == <<"sha256", <<data, lastOp>>>>
hashData(data) == <<"sha256", data>>

\* the content identifier the archive assigns to a content
cidOf(content) == <<"cid", content>>

\* transaction hash of the i-th transaction the ledger accepted
txHash(i) == <<"tx", i>>

\* Number.prototype.toString for a non-negative integer: its decimal digits
Digits == <<"0", "1", "2", "3", "4", "5", "6", "7", "8", "9">>

RECURSIVE NumberToString(_)
NumberToString(n) ==
  IF n < 10 THEN <<Digits[n + 1]>>
  ELSE Append(NumberToString(n \div 10), Digits[(n % 10) + 1])

NoReceipt ==
  [recordId |-> <<>>, transactionHash |-> <<>>, ipfsHash |-> <<>>,
   certificate |-> <<>>, proofTokens |-> <<>>]

\* Errors: the codes a rejection of the node or of the exchange can carry,
\* and the errors the SDK itself raises (none of them has a code)
ErrorCodes == {"INSUFFICIENT_FUNDS", "NETWORK_ERROR", "CALL_EXCEPTION"}
ErrorOf(name, message, code) == [name |-> name, message |-> message, code |-> code]
NoError == ErrorOf("", "", "")
Rejection(code) == ErrorOf("Error", "rejected", code)
NotAFunction == ErrorOf("TypeError", "is not a function", Undefined)
BodyUsed == ErrorOf("TypeError", "body already used", Undefined)
CallbackThrew == ErrorOf("Error", "thrown by onRecord", Undefined)
UploadFailed == ErrorOf("Error", "Failed to upload to IPFS", Undefined)
InsufficientTokens ==
  ErrorOf("Error", "Insufficient PROOF tokens. Please purchase more tokens.", Undefined)
NetworkFailure ==
  ErrorOf("Error", "Network error. Please check your connection.", Undefined)

\* the response the fetch promise resolves with, and its clone
NoClone == [made |-> FALSE, bodyUsed |-> FALSE]
ResponseOf(r, bodyUsed) ==
  [id |-> <<"response", r>>, bodyUsed |-> bodyUsed, proof |-> NoReceipt]

\* a call that has not been made yet
IdleRun ==
  [op |-> "none", count |-> 0, visibility |-> Undefined, status |-> "idle",
   pc |-> "none", log |-> <<>>, ipfsHash |-> <<>>, tx |-> 0,
   recordId |-> <<>>, receipt |-> NoReceipt,
   response |-> ResponseOf(0, FALSE), clone |-> NoClone,
   returned |-> <<>>, notified |-> <<>>,
   caught |-> NoError, error |-> NoError, reported |-> <<>>]

\* the records batchRecord() of call r is given, in input order
recordsOf(run, r) ==
  [k \in 1..run.count |-> [request |-> <<"request", r, k>>,
                           response |-> <<"response", r, k>>]]

\* the document batchRecord() archives: { records, timestamp, count }
batchDocument(run, r) ==
  [records |-> recordsOf(run, r), count |-> Len(recordsOf(run, r))]

\* the content record() / batchRecord() of call r hands to uploadToIPFS
payloadOf(run, r) ==
  IF run.op = "record" THEN <<"record", r>>
  ELSE <<"batchRecord", r, batchDocument(run, r)>>

\* the arguments of storeAPIRecord / storeBatchRecords of call r:
\* records.map(r => this.hashData(r.request)), and likewise the responses
requestHashes(run, r) ==
  IF run.op = "record" THEN hashData(<<"request", r, 0>>)
  ELSE [k \in 1..run.count |-> hashData(recordsOf(run, r)[k].request)]

responseHashes_Reversed(run, r) ==
  IF run.op = "record" THEN hashData(<<"response", r, 0>>)
  ELSE [k \in 1..run.count |-> hashData(recordsOf(run, r)[run.count + 1 - k].response)]
responseHashes(run, r) ==
  IF run.op = "record" THEN hashData(<<"response", r, 0>>)
  ELSE [k \in 1..run.count |-> hashData(recordsOf(run, r)[k].response)]

\* options.visibility !== undefined ? options.visibility : PUBLIC
visibilityLevel_DefaultPrivate(visibility) ==
  IF visibility # Undefined THEN visibility ELSE "PRIVATE"
visibilityLevel(visibility) ==
  IF visibility # Undefined THEN visibility ELSE "PUBLIC"

anchorArguments(run, r) ==
  [requestHash |-> requestHashes(run, r),
   responseHash |-> responseHashes(run, r),
   ipfsHash |-> run.ipfsHash,
   visibility |-> visibilityLevel(run.visibility)]

\* the log entries of a confirmation
TransferLog == [name |-> "Transfer", recordId |-> <<>>]
RecordStoredLog(id) == [name |-> "RecordStored", recordId |-> id]
BatchRecordStoredLog(id) == [name |-> "BatchRecordStored", recordId |-> id]

ReceiptLogs(r) ==
  { <<>>,
    <<TransferLog>>,
    <<TransferLog, RecordStoredLog(<<"record", r>>)>>,
    <<RecordStoredLog(<<"record", r>>), RecordStoredLog(<<"record", 0>>)>> }

\* the logs of the confirmation of storeBatchRecords
BatchReceiptLogs(r) ==
  { <<>>,
    <<TransferLog>>,
    <<TransferLog, BatchRecordStoredLog(<<"batch", r>>)>> }

\* the confirmations call r can be given
ConfirmationLogs(run, r) ==
  IF run.op = "record" THEN ReceiptLogs(r) ELSE BatchReceiptLogs(r)

\* receipt.logs.find(RecordStored), then args.recordId || tx.hash, else tx.hash
extractRecordId_AlwaysTxHash(logs, hash) == hash
extractRecordId(logs, hash) ==
  LET found == {i \in 1..Len(logs) : logs[i].name = "RecordStored"} IN
  IF found = {} THEN hash
  ELSE LET event == logs[CHOOSE i \in found : \A j \in found : i <= j] IN
       IF event.recordId # <<>> THEN event.recordId ELSE hash

\* this.config: autoApprove is config.autoApprove !== false; onRecord and
\* onError say whether the callback was configured
ProofConfig(autoApprove, onRecord, onError, encryptData) ==
  [autoApprove |-> autoApprove # "false", onRecord |-> onRecord,
   onError |-> onError, encryptData |-> encryptData]

\* ProofClient constructor, and the ledger and archive it connects to
ClientConfigured(autoApprove, onRecord, onError, allowance) ==
  /\ config = ProofConfig(autoApprove, onRecord, onError, FALSE)
  /\ ledger = [allowance |-> allowance, txs |-> <<>>]
  /\ archive = {}
  /\ IpfsIdle

ClientConstructed(autoApprove, allowance) ==
  /\ ClientConfigured(autoApprove, FALSE, FALSE, allowance)
  /\ runs = [r \in Runs |-> IdleRun]

\* ProofMiddleware constructor: the timer is started only when batchInterval
\* is set
MiddlewareConstructed(opts) ==
  /\ options = opts
  /\ batchQueue = <<>>
  /\ batchTimer = IF opts.batchInterval # 0 THEN startBatchProcessing(opts) ELSE NoTimer
  /\ captured = 0
  /\ batchCalls = <<>>
  /\ recordCalls = <<>>
  /\ res = IdleRes
  /\ lastOp = "constructor"
  /\ lastPath = <<"/">>
  /\ lastDecision = FALSE

\* a middleware around a freshly constructed client
Constructed(opts) ==
  /\ MiddlewareConstructed(opts)
  /\ ClientConstructed(Undefined, 0)

Init == \E opts \in MiddlewareOptions : Constructed(opts)

InitPatterns == \E opts \in PatternOptions : Constructed(opts)

----------------------------------------------------------------------------
(* Hooks *)

\* JavaScript runs each callback to its next await without interruption, so
\* one action is one such stretch: a hook together with the addToBatch and
\* the synchronous part of processBatch it calls, a timer callback, or the
\* resumption of a handler after the promise it awaited has settled.

BatchMode == options.batchInterval # 0

\* Exploration bound on captured exchanges: MaxEntries per run, and beyond
\* that only along the run that fills the queue up to its threshold before
\* anything was flushed
MayCapture ==
  \/ captured < MaxEntries
  \/ /\ BatchMode
     /\ batchCalls = <<>>
     /\ captured < EffectiveBatchSize(options)

\* response statuses of the intercepted exchanges
Statuses == {200, 304}

\* statuses for which the Response constructor accepts no body
NullBodyStatuses == {101, 103, 204, 205, 304}

\* new Response(JSON.stringify(body), {status, headers}) in recordImmediately:
\* the constructor throws a RangeError for a status outside 200..599 and a
\* TypeError for a body together with a null-body status
mockResponseThrows(status, hasBody) ==
  \/ status < 200 \/ status > 599
  \/ hasBody /\ status \in NullBodyStatuses

\* recordImmediately up to its await: client.record is called unless
\* building the mock response threw (the hook's catch block logs that)
recordImmediately(calls, entry, hook, status, hasBody) ==
  IF mockResponseThrows(status, hasBody)
    THEN calls
    ELSE Append(calls, [exchange |-> entry, hook |-> hook,
                        result |-> "pending", handler |-> "awaiting"])

\* the body of the hooks' try block: batch or immediate recording
Capture(hook, status, hasBody) ==
  /\ MayCapture
  /\ captured' = captured + 1
  /\ IF BatchMode
       THEN LET r == addToBatch(options, batchQueue, batchCalls, captured + 1) IN
            /\ batchQueue' = r.queue
            /\ batchCalls' = r.calls
            /\ recordCalls' = recordCalls
       ELSE /\ recordCalls' =
                 recordImmediately(recordCalls, captured + 1, hook, status, hasBody)
            /\ UNCHANGED <<batchQueue, batchCalls>>

\* express(): the middleware function, up to and including next()
ExpressRequest(path) ==
  /\ res.phase \in {"idle", "finished"}
  /\ res' = [IdleRes EXCEPT !.phase = "hooked", !.path = path,
                            !.wrapped = shouldRecord(options, path),
                            !.nextCalls = 1]
  /\ lastOp' = "express"
  /\ UNCHANGED <<clientVars, ipfsVars, requests>>
  /\ UNCHANGED <<options, batchQueue, batchTimer, captured, batchCalls, recordCalls,
                 lastPath, lastDecision>>

\* variant: the original is called but its result is not returned
wrappedRespond_DropsReturn(method, data) ==
  [locals |-> data, forwarded |-> data, returned |-> <<>>]

\* the replacement res.send / res.json: remember the body, then call the
\* original method with the same body and return what it returns
wrappedRespond(method, data) ==
  [locals |-> data, forwarded |-> data, returned |-> OriginalReturn(method, data)]

\* the application answers through res.send / res.json, wrapped or not
ExpressRespond(method, data) ==
  /\ res.phase = "hooked"
  /\ LET out == IF res.wrapped
                  THEN wrappedRespond(method, data)
                  ELSE [locals |-> res.locals, forwarded |-> data,
                        returned |-> OriginalReturn(method, data)] IN
     res' = [res EXCEPT !.phase = "sent", !.method = method, !.given = data,
                        !.locals = out.locals,
                        !.forwarded = out.forwarded,
                        !.returned = out.returned]
  /\ lastOp' = "respond"
  /\ UNCHANGED <<clientVars, ipfsVars, requests>>
  /\ UNCHANGED <<options, batchQueue, batchTimer, captured, batchCalls, recordCalls,
                 lastPath, lastDecision>>

\* the 'finish' event: the listener exists only for a wrapped response; it
\* reads res.statusCode and the body remembered by the wrapper
ExpressFinish(status) ==
  /\ res.phase = "sent"
  /\ IF res.wrapped
       THEN Capture("express", status, res.locals # "none")
       ELSE UNCHANGED <<batchQueue, captured, batchCalls, recordCalls>>
  /\ res' = [res EXCEPT !.phase = "finished"]
  /\ lastOp' = "finish"
  /\ UNCHANGED <<clientVars, ipfsVars, requests>>
  /\ UNCHANGED <<options, batchTimer, lastPath, lastDecision>>

\* koa(): the whole middleware function around await next()
KoaRequest(path, status, hasBody) ==
  /\ IF shouldRecord(options, path)
       THEN Capture("koa", status, hasBody)
       ELSE UNCHANGED <<batchQueue, captured, batchCalls, recordCalls>>
  /\ lastOp' = "koa"
  /\ UNCHANGED <<clientVars, ipfsVars, requests>>
  /\ UNCHANGED <<options, batchTimer, res, lastPath, lastDecision>>

\* fastify(): the onResponse hook
FastifyResponse(path, status, hasBody) ==
  /\ IF shouldRecord(options, path)
       THEN Capture("fastify", status, hasBody)
       ELSE UNCHANGED <<batchQueue, captured, batchCalls, recordCalls>>
  /\ lastOp' = "fastify"
  /\ UNCHANGED <<clientVars, ipfsVars, requests>>
  /\ UNCHANGED <<options, batchTimer, res, lastPath, lastDecision>>

\* the recurring timer fires
TimerFire ==
  /\ batchTimer.armed
  /\ LET r == timerCallback(batchQueue, batchCalls) IN
     /\ batchQueue' = r.queue
     /\ batchCalls' = r.calls
  /\ lastOp' = "timer"
  /\ UNCHANGED <<clientVars, ipfsVars, requests>>
  /\ UNCHANGED <<options, batchTimer, captured, recordCalls, res, lastPath, lastDecision>>

\* client.batchRecord settles and processBatch resumes after its await
BatchSettles(i, result) ==
  /\ batchCalls[i].result = "pending"
  /\ batchCalls' = [batchCalls EXCEPT ![i].result = result,
                                      ![i].flush = flushAfterSettle(result)]
  /\ batchQueue' = queueAfterSettle(batchQueue, batchCalls[i].batch, result)
  /\ UNCHANGED <<options, batchTimer, captured, recordCalls, res, lastPath, lastDecision>>

BatchResolved == \E i \in 1..Len(batchCalls) :
  BatchSettles(i, "resolved") /\ lastOp' = "batchResolved" /\ UNCHANGED <<clientVars, ipfsVars, requests>>

BatchRejected == \E i \in 1..Len(batchCalls) :
  BatchSettles(i, "rejected") /\ lastOp' = "batchRejected" /\ UNCHANGED <<clientVars, ipfsVars, requests>>

\* client.record settles and the hook resumes inside its try block
RecordSettles(i, result) ==
  /\ recordCalls[i].result = "pending"
  /\ recordCalls' = [recordCalls EXCEPT ![i].result = result,
                                        ![i].handler = handlerAfterSettle(result)]
  /\ UNCHANGED <<options, batchQueue, batchTimer, captured, batchCalls, res,
                 lastPath, lastDecision>>

RecordResolved == \E i \in 1..Len(recordCalls) :
  RecordSettles(i, "resolved") /\ lastOp' = "recordResolved" /\ UNCHANGED <<clientVars, ipfsVars, requests>>

RecordRejected == \E i \in 1..Len(recordCalls) :
  RecordSettles(i, "rejected") /\ lastOp' = "recordRejected" /\ UNCHANGED <<clientVars, ipfsVars, requests>>

\* the steps of a middleware in batch mode
NextBatch ==
  \/ \E p \in ExchangePaths : ExpressRequest(p)
  \/ \E m \in Methods, d \in Bodies : ExpressRespond(m, d)
  \/ \E st \in Statuses : ExpressFinish(st)
  \/ \E p \in ExchangePaths, st \in Statuses, b \in BOOLEAN : KoaRequest(p, st, b)
  \/ \E p \in ExchangePaths, st \in Statuses, b \in BOOLEAN : FastifyResponse(p, st, b)
  \/ TimerFire
  \/ BatchResolved
  \/ BatchRejected

Next ==
  \/ NextBatch
  \/ RecordResolved
  \/ RecordRejected

Spec == Init /\ [][Next]_vars

\* a middleware constructed with a batch interval
InitBatch ==
  \E opts \in {o \in MiddlewareOptions : o.batchInterval # 0} : Constructed(opts)

\* batch mode with the timer firing again and again: setInterval is never
\* cleared once the constructor has armed it
FairSpec == InitBatch /\ [][NextBatch]_vars /\ WF_vars(TimerFire)

\* processBatch called on its own, whatever the queue holds
ProcessBatchCall ==
  /\ LET r == processBatch(batchQueue, batchCalls, "direct") IN
     /\ batchQueue' = r.queue
     /\ batchCalls' = r.calls
  /\ lastOp' = "processBatch"
  /\ UNCHANGED <<clientVars, ipfsVars, requests>>
  /\ UNCHANGED <<options, batchTimer, captured, recordCalls, res, lastPath, lastDecision>>

NextFlush == NextBatch \/ ProcessBatchCall

SpecFlush == InitBatch /\ [][NextFlush]_vars

\* shouldRecord applied to every path under every pair of pattern lists
Decide(path) ==
  /\ lastPath' = path
  /\ lastDecision' = shouldRecord(options, path)
  /\ lastOp' = "shouldRecord"
  /\ UNCHANGED <<clientVars, ipfsVars, requests>>
  /\ UNCHANGED <<options, batchQueue, batchTimer, captured, batchCalls, recordCalls, res>>

NextPatterns == \E p \in Paths : Decide(p)

SpecPatterns == InitPatterns /\ [][NextPatterns]_vars

\* matchPattern applied to every path under every single pattern, the
\* regular-expression character "." among its characters
MaxMatchLen == 3
MatchChars == PatternChars \cup {"."}
MatchPatterns == SeqsUpTo(MatchChars, MaxMatchLen)

InitMatch ==
  \E pat \in MatchPatterns :
    Constructed(MakeOptions(0, 0, [patterns |-> ListOf(<<pat>>),
                                   excludePatterns |-> Absent]))

SpecMatch == InitMatch /\ [][NextPatterns]_vars

----------------------------------------------------------------------------
(* ProofClient: the steps of a call *)

\* A call of record() or batchRecord() runs to its next await without
\* interruption. log lists the steps of the call in the order they were
\* started, each with the outcome known so far; pc names the promise the
\* call is waiting for.

Logged(run, step, result) ==
  [run EXCEPT !.log = Append(@, [step |-> step, result |-> result])]

\* the promise awaited last has settled
Settled(run, result) ==
  [run EXCEPT !.log[Len(run.log)].result = result]

Awaiting(run, step) ==
  [Logged(run, step, "pending") EXCEPT !.pc = step]

\* handleError(error): the error it throws, NoError when it logs the error
\* and returns; config.onError is not read
handleError_LogsOnly(error) == NoError
handleError(error) ==
  IF error.code = "INSUFFICIENT_FUNDS" THEN InsufficientTokens
  ELSE IF error.code = "NETWORK_ERROR" THEN NetworkFailure
  ELSE NoError

\* catch (error) { this.handleError(error); throw error; }: what the call
\* rejects with
rethrown(error) ==
  IF handleError(error) # NoError THEN handleError(error) ELSE error

\* the catch block of record() / batchRecord(): whatever handleError does,
\* the call ends rejected
catchBlock_Retries(w, r, error) ==
  [w EXCEPT !.runs[r] = Logged(@, @.pc, "pending")]
catchBlock_Unpins(w, r, error) ==
  [w EXCEPT !.runs[r] = [@ EXCEPT !.status = "rejected", !.pc = "done",
                                  !.caught = error, !.error = rethrown(error)],
            !.archive = @ \ {w.runs[r].ipfsHash}]
catchBlock(w, r, error) ==
  [w EXCEPT !.runs[r] = [@ EXCEPT !.status = "rejected", !.pc = "done",
                                  !.caught = error, !.error = rethrown(error)]]

\* a contract call: awaited when the ABI has the function, thrown into the
\* catch block at once when it has not
contractStep(w, r, abi, fn, step) ==
  IF contractCall(abi, fn) = "pending"
    THEN [w EXCEPT !.runs[r] = Awaiting(@, step)]
    ELSE catchBlock([w EXCEPT !.runs[r] = Logged(@, step, "unsupported")], r, NotAFunction)

\* this.proofRegistry.storeAPIRecord(...) / storeBatchRecords(...)
storeOnLedger(w, r) ==
  contractStep(w, r, RegistryAbi,
               IF w.runs[r].op = "record" THEN "storeAPIRecord" ELSE "storeBatchRecords",
               "store")

\* ensureTokenApproval up to its first await
ensureTokenApproval(w, r) ==
  contractStep(w, r, RegistryAbi, "recordPrice", "recordPrice")

\* ensureTokenApproval after the price was read
afterRecordPrice(w, r) ==
  contractStep([w EXCEPT !.runs[r] = Settled(@, "ok")], r,
               TokenAbi, "allowance", "allowance")

\* ensureTokenApproval after the allowance was read: approve the maximum
\* when the allowance is below price times unit count
afterAllowance(w, r) ==
  LET totalCost == RecordPrice * w.runs[r].count
      currentAllowance == w.ledger.allowance
      w1 == [w EXCEPT !.runs[r] = Settled(@, "ok")]
  IN IF currentAllowance < totalCost
       THEN contractStep(w1, r, TokenAbi, "approve", "approve")
       ELSE storeOnLedger(w1, r)

\* the node accepted the approval; tx.wait() is awaited
afterApprove(w, r) ==
  [w EXCEPT !.ledger.txs = Append(@, [fn |-> "approve", run |-> r,
                                      args |-> [amount |-> MaxUint256],
                                      state |-> "submitted",
                                      logs |-> <<>>]),
            !.runs[r] = [Awaiting(Settled(@, "ok"), "approveWait")
                           EXCEPT !.tx = Len(w.ledger.txs) + 1]]

\* the approval is confirmed: ensureTokenApproval returns
afterApproveWait(w, r) ==
  storeOnLedger([w EXCEPT !.ledger.txs[w.runs[r].tx].state = "confirmed",
                          !.ledger.allowance = w.ledger.txs[w.runs[r].tx].args.amount,
                          !.runs[r] = Settled(@, "ok")], r)

\* record() after the exchange completed: clone (which throws when the body
\* of the response was already read), then read the body of the clone
afterFetch_ReadsOriginal(w, r) ==
  [w EXCEPT !.runs[r] = [Awaiting(Settled(@, "ok"), "text")
                           EXCEPT !.response.bodyUsed = TRUE]]
afterFetch(w, r) ==
  IF w.runs[r].response.bodyUsed
    THEN catchBlock([w EXCEPT !.runs[r] = Settled(@, "ok")], r, BodyUsed)
    ELSE [w EXCEPT !.runs[r] = [Awaiting(Settled(@, "ok"), "text")
                                  EXCEPT !.clone = [made |-> TRUE, bodyUsed |-> TRUE]]]

\* record() after the body was read: both fingerprints, then the upload
afterText_UploadFirst(w, r) ==
  [w EXCEPT !.runs[r] =
     [Logged(Logged(Settled(@, "ok"), "upload", "pending"), "fingerprint", "ok")
        EXCEPT !.pc = "upload"]]
afterText(w, r) ==
  [w EXCEPT !.runs[r] =
     Awaiting(Logged(Settled(@, "ok"), "fingerprint", "ok"), "upload")]

\* after uploadToIPFS: the content is stored under its identifier; record()
\* ensures the allowance when autoApprove is set, batchRecord() always
afterUpload(w, r, cfg) ==
  LET cid == cidOf(payloadOf(w.runs[r], r))
      w1 == [w EXCEPT !.archive = @ \cup {cid},
                      !.runs[r] = [Settled(@, "ok") EXCEPT !.ipfsHash = cid]]
  IN IF w.runs[r].op = "record" /\ ~cfg.autoApprove
       THEN storeOnLedger(w1, r)
       ELSE ensureTokenApproval(w1, r)

\* the node accepted the anchor transaction; tx.wait() is awaited
afterStore(w, r) ==
  [w EXCEPT !.ledger.txs = Append(@, [fn |-> IF w.runs[r].op = "record"
                                               THEN "storeAPIRecord"
                                               ELSE "storeBatchRecords",
                                      run |-> r,
                                      args |-> anchorArguments(w.runs[r], r),
                                      state |-> "submitted",
                                      logs |-> <<>>]),
            !.runs[r] = [Awaiting(Settled(@, "ok"), "wait")
                           EXCEPT !.tx = Len(w.ledger.txs) + 1]]

\* the receipt batchRecord() returns
batchCost_NoDiscount(count) == NumberToString(count * 10)
batchCost(count) == NumberToString(count * 8)

batchReceipt(run, hash, logs) ==
  [recordId |-> hash,
   transactionHash |-> hash,
   ipfsHash |-> run.ipfsHash,
   certificate |-> <<>>,
   proofTokens |-> batchCost(run.count)]

\* the receipt record() assembles
recordReceipt(run, hash, certificate) ==
  [recordId |-> run.recordId,
   transactionHash |-> hash,
   ipfsHash |-> run.ipfsHash,
   certificate |-> certificate,
   proofTokens |-> <<"1", "0">>]

\* this.emit(event, data): onRecord is called when configured and the event
\* is 'recorded'
emit_Twice(cfg, run, event, data) ==
  IF cfg.onRecord /\ event = "recorded"
    THEN [run EXCEPT !.notified = Append(Append(@, data), data)]
    ELSE run
emit(cfg, run, event, data) ==
  IF cfg.onRecord /\ event = "recorded"
    THEN [run EXCEPT !.notified = Append(@, data)]
    ELSE run

\* the anchor is confirmed: record() extracts the recordId and creates the
\* certificate; batchRecord() returns its receipt
afterWait_AnnotatesFirst(w, r, logs) ==
  LET run == w.runs[r]
      hash == txHash(run.tx)
      w1 == [w EXCEPT !.ledger.txs[run.tx].state = "confirmed",
                      !.ledger.txs[run.tx].logs = logs,
                      !.runs[r] = Settled(@, "ok")]
  IN IF run.op = "record"
       THEN [w1 EXCEPT !.runs[r] =
               [Awaiting(@, "certificate")
                  EXCEPT !.recordId = extractRecordId(logs, hash),
                         !.response.proof = recordReceipt(run, hash, <<>>)]]
       ELSE [w1 EXCEPT !.runs[r] =
               [Logged(@, "receipt", "ok")
                  EXCEPT !.receipt = batchReceipt(run, hash, logs),
                         !.status = "resolved",
                         !.pc = "done"]]
afterWait(w, r, logs) ==
  LET run == w.runs[r]
      hash == txHash(run.tx)
      w1 == [w EXCEPT !.ledger.txs[run.tx].state = "confirmed",
                      !.ledger.txs[run.tx].logs = logs,
                      !.runs[r] = Settled(@, "ok")]
  IN IF run.op = "record"
       THEN [w1 EXCEPT !.runs[r] =
               [Awaiting(@, "certificate") EXCEPT !.recordId = extractRecordId(logs, hash)]]
       ELSE [w1 EXCEPT !.runs[r] =
               [Logged(@, "receipt", "ok")
                  EXCEPT !.receipt = batchReceipt(run, hash, logs),
                         !.status = "resolved",
                         !.pc = "done"]]

\* record() after the certificate was stored: the receipt is assembled and
\* attached, onRecord is called, the response is returned
afterCertificate(w, r, cfg, onRecord) ==
  LET run == w.runs[r]
      certificate == cidOf(<<"certificate", r>>)
      proofReceipt == recordReceipt(run, txHash(run.tx), certificate)
      w1 == [w EXCEPT !.archive = @ \cup {certificate},
                      !.runs[r] =
                        emit(cfg,
                             [Logged(Settled(@, "ok"), "receipt", "ok")
                                EXCEPT !.receipt = proofReceipt,
                                       !.response.proof = proofReceipt],
                             "recorded", proofReceipt)]
  IN IF cfg.onRecord /\ onRecord = "throws"
       THEN catchBlock(w1, r, CallbackThrew)
       ELSE [w1 EXCEPT !.runs[r] = [@ EXCEPT !.status = "resolved", !.pc = "done",
                                             !.returned = run.response.id]]

\* the continuation of call r after the promise it awaits has resolved
resumed(w, r, cfg, logs, onRecord) ==
  LET pc == w.runs[r].pc IN
  CASE pc = "fetch" -> afterFetch(w, r)
    [] pc = "text" -> afterText(w, r)
    [] pc = "upload" -> afterUpload(w, r, cfg)
    [] pc = "recordPrice" -> afterRecordPrice(w, r)
    [] pc = "allowance" -> afterAllowance(w, r)
    [] pc = "approve" -> afterApprove(w, r)
    [] pc = "approveWait" -> afterApproveWait(w, r)
    [] pc = "store" -> afterStore(w, r)
    [] pc = "wait" -> afterWait(w, r, logs)
    [] pc = "certificate" -> afterCertificate(w, r, cfg, onRecord)

\* the continuation of call r after the promise it awaits has rejected; a
\* transaction whose confirmation failed is recorded as failed, and a
\* failure of the archive arrives wrapped by the catch block of upload
rejected(w, r, code) ==
  LET run == w.runs[r]
      w1 == [w EXCEPT !.runs[r] = Settled(@, "failed")]
  IN catchBlock(IF run.pc \in {"approveWait", "wait"}
                  THEN [w1 EXCEPT !.ledger.txs[run.tx].state = "failed"]
                  ELSE w1,
                r,
                IF run.pc \in {"upload", "certificate"}
                  THEN UploadFailed ELSE Rejection(code))

World == [runs |-> runs, ledger |-> ledger, archive |-> archive]

Becomes(w) ==
  /\ runs' = w.runs
  /\ ledger' = w.ledger
  /\ archive' = w.archive

\* record(fetchPromise, {visibility}) is called: it awaits the exchange
CallRecord(r, visibility, bodyUsed) ==
  /\ runs[r].status = "idle"
  /\ \A q \in 1..(r - 1) : runs[q].status # "idle"
  /\ Becomes([World EXCEPT !.runs[r] =
       Awaiting([IdleRun EXCEPT !.op = "record", !.count = 1,
                                !.visibility = visibility,
                                !.response = ResponseOf(r, bodyUsed),
                                !.status = "running"], "fetch")])
  /\ lastOp' = "record"
  /\ UNCHANGED <<config, middlewareVars, ipfsVars, requests>>

\* batchRecord(records, visibility) is called: it fingerprints every record
\* and awaits the upload
CallBatchRecord(r, count, visibility) ==
  /\ runs[r].status = "idle"
  /\ \A q \in 1..(r - 1) : runs[q].status # "idle"
  /\ Becomes([World EXCEPT !.runs[r] =
       Awaiting(Logged([IdleRun EXCEPT !.op = "batchRecord", !.count = count,
                                       !.visibility = visibility,
                                       !.status = "running"],
                       "fingerprint", "ok"), "upload")])
  /\ lastOp' = "batchRecord"
  /\ UNCHANGED <<config, middlewareVars, ipfsVars, requests>>

\* the promise call r awaits resolves
StepResolved(r, logs, onRecord) ==
  /\ runs[r].status = "running"
  /\ logs # <<>> => runs[r].pc = "wait"
  /\ onRecord # "returns" => runs[r].pc = "certificate" /\ config.onRecord
  /\ Becomes(resumed(World, r, config, logs, onRecord))
  /\ lastOp' = "stepResolved"
  /\ UNCHANGED <<config, middlewareVars, ipfsVars, requests>>

\* the promise call r awaits rejects with an error of the given code
StepRejected(r, code) ==
  /\ runs[r].status = "running"
  /\ Becomes(rejected(World, r, code))
  /\ lastOp' = "stepRejected"
  /\ UNCHANGED <<config, middlewareVars, ipfsVars, requests>>

\* one client and its calls, for each setting of autoApprove and each
\* allowance granted beforehand
AutoApproveOptions == {"undefined", "true", "false"}
CallbackOutcomes == {"returns", "throws"}

InitClient ==
  /\ MiddlewareConstructed(MakeOptions(0, 0, NoPatterns))
  /\ \E autoApprove \in AutoApproveOptions, onRecord \in BOOLEAN,
        onError \in BOOLEAN, allowance \in InitialAllowances :
       /\ ClientConfigured(autoApprove, onRecord, onError, allowance)
       /\ runs = [r \in Runs |-> IdleRun]

NextClient ==
  \/ \E r \in Runs, v \in VisibilityOptions, used \in BOOLEAN : CallRecord(r, v, used)
  \/ \E r \in Runs, n \in BatchCounts, v \in VisibilityOptions : CallBatchRecord(r, n, v)
  \/ \E r \in Runs : \E logs \in ConfirmationLogs(runs[r], r), cb \in CallbackOutcomes :
       StepResolved(r, logs, cb)
  \/ \E r \in Runs, code \in ErrorCodes : StepRejected(r, code)

SpecClient == InitClient /\ [][NextClient]_vars

\* The part of record() and batchRecord() that follows the confirmation of
\* the anchor transaction, started from every confirmation: the first call
\* has archived its payload, has its anchor transaction accepted and awaits
\* tx.wait().
afterCall(op, count, visibility) ==
  LET started == [IdleRun EXCEPT !.op = op, !.count = count,
                                 !.visibility = visibility,
                                 !.response = ResponseOf(1, FALSE),
                                 !.status = "running"]
      w0 == [runs |-> [r \in Runs |-> IdleRun],
             ledger |-> [allowance |-> MaxUint256, txs |-> <<>>],
             archive |-> {}]
  IN IF op = "record"
       THEN afterText(afterFetch([w0 EXCEPT !.runs[1] = Awaiting(started, "fetch")], 1), 1)
       ELSE [w0 EXCEPT !.runs[1] = Awaiting(Logged(started, "fingerprint", "ok"), "upload")]

AwaitingConfirmation(op, count, visibility) ==
  LET w == afterCall(op, count, visibility)
      cid == cidOf(payloadOf(w.runs[1], 1))
      archived == [w EXCEPT !.archive = @ \cup {cid},
                            !.runs[1] = [Settled(@, "ok") EXCEPT !.ipfsHash = cid]]
  IN afterStore(storeOnLedger(archived, 1), 1)

InitFinish ==
  /\ MiddlewareConstructed(MakeOptions(0, 0, NoPatterns))
  /\ \E autoApprove \in AutoApproveOptions, onRecord \in BOOLEAN,
        onError \in BOOLEAN,
        op \in {"record", "batchRecord"}, n \in BatchCounts, v \in VisibilityOptions :
       /\ op = "record" => n = 1 /\ autoApprove = "false"
       /\ config = ProofConfig(autoApprove, onRecord, onError, FALSE)
       /\ LET w == AwaitingConfirmation(op, n, v) IN
            /\ runs = w.runs
            /\ ledger = w.ledger
            /\ archive = w.archive
  /\ IpfsIdle

SpecFinish == InitFinish /\ [][NextClient]_vars

----------------------------------------------------------------------------
(* ProofClient: verify, grantAccess, revokeAccess, hashData *)

\* calls of verify / grantAccess / revokeAccess / hashData explored per client
MaxRequests == 2

\* the identifiers the calls are made with: the record of the first run,
\* the hash of its transaction, and one the registry has never seen
RecordIds == {<<"record", 1>>, txHash(1), <<"record", 0>>}
Viewers == {"viewer"}
AccessOps == {"grantAccess", "revokeAccess"}

\* the structures hashData is asked about
FingerprintInputs == {<<"request", 1, 0>>, <<"response", 1, 0>>}

NoRequest ==
  [op |-> "none", argument |-> <<>>, viewer |-> "", status |-> "idle",
   pc |-> "none", tx |-> 0, result |-> <<>>, caught |-> NoError, error |-> NoError]

\* the registry keeps one record per confirmed storeAPIRecord, under the
\* identifier its RecordStored event carries
registered(l, id) ==
  {i \in 1..Len(l.txs) : /\ l.txs[i].fn = "storeAPIRecord"
                          /\ l.txs[i].state = "confirmed"
                          /\ <<"record", l.txs[i].run>> = id}

ZeroRecord ==
  [requestHash |-> <<>>, responseHash |-> <<>>, timestamp |-> 0,
   recorder |-> "0x0", ipfsHash |-> <<>>, visibility |-> "PUBLIC", exists |-> FALSE]

\* the registry's view function verifyRecord(recordId): [exists, record]
verifyRecord(l, id) ==
  IF registered(l, id) = {}
    THEN [exists |-> FALSE, record |-> ZeroRecord]
    ELSE LET i == CHOOSE i \in registered(l, id) : TRUE IN
         [exists |-> TRUE,
          record |-> [requestHash |-> l.txs[i].args.requestHash,
                      responseHash |-> l.txs[i].args.responseHash,
                      timestamp |-> i,
                      recorder |-> "signer",
                      ipfsHash |-> l.txs[i].args.ipfsHash,
                      visibility |-> l.txs[i].args.visibility,
                      exists |-> TRUE]]

\* the APIRecord verify() builds from the registry's record
APIRecord(record) ==
  <<"record", [requestHash |-> record.requestHash,
               responseHash |-> record.responseHash,
               timestamp |-> NumberToString(record.timestamp),
               recorder |-> record.recorder,
               ipfsHash |-> record.ipfsHash,
               exists |-> TRUE]>>

Null == <<"null">>

\* verify() after verifyRecord answered: null when the record does not
\* exist, the APIRecord otherwise
afterVerifyRecord_NoExistsCheck(l, request) ==
  [request EXCEPT !.status = "resolved", !.pc = "done",
                  !.result = APIRecord(verifyRecord(l, request.argument).record)]
afterVerifyRecord(l, request) ==
  LET answer == verifyRecord(l, request.argument) IN
  [request EXCEPT !.status = "resolved", !.pc = "done",
                  !.result = IF ~answer.exists THEN Null ELSE APIRecord(answer.record)]

\* the catch block of verify / grantAccess / revokeAccess
requestCatch(request, error) ==
  [request EXCEPT !.status = "rejected", !.pc = "done",
                  !.caught = error, !.error = rethrown(error)]

\* a call up to its first await: the contract function is called
called(op, argument, viewer) ==
  LET request == [NoRequest EXCEPT !.op = op, !.argument = argument, !.viewer = viewer] IN
  IF contractCall(RegistryAbi, IF op = "verify" THEN "verifyRecord" ELSE op) = "pending"
    THEN [request EXCEPT !.status = "running", !.pc = "call"]
    ELSE requestCatch(request, NotAFunction)

\* grantAccess / revokeAccess after the node accepted the transaction:
\* tx.wait() is awaited
afterAccessSubmitted_NoWait(l, request) ==
  [request EXCEPT !.status = "resolved", !.pc = "done", !.tx = Len(l.txs) + 1,
                  !.result = txHash(Len(l.txs) + 1)]
afterAccessSubmitted(l, request) ==
  [request EXCEPT !.pc = "wait", !.tx = Len(l.txs) + 1]

\* grantAccess / revokeAccess after the confirmation: receipt.hash is
\* returned
afterAccessWait(request) ==
  [request EXCEPT !.status = "resolved", !.pc = "done", !.result = txHash(request.tx)]

MayRequest == Len(requests) < MaxRequests

CallVerify(recordId) ==
  /\ MayRequest
  /\ requests' = Append(requests, called("verify", recordId, ""))
  /\ lastOp' = "verify"
  /\ UNCHANGED <<middlewareVars, clientVars, ipfsVars>>

CallAccess(op, recordId, viewer) ==
  /\ MayRequest
  /\ requests' = Append(requests, called(op, recordId, viewer))
  /\ lastOp' = op
  /\ UNCHANGED <<middlewareVars, clientVars, ipfsVars>>

\* hashData(data): synchronous, nothing is awaited
Fingerprint(data) ==
  /\ MayRequest
  /\ requests' = Append(requests, [NoRequest EXCEPT !.op = "hashData", !.argument = data,
                                                    !.status = "resolved", !.pc = "done",
                                                    !.result = hashData(data)])
  /\ lastOp' = "hashData"
  /\ UNCHANGED <<middlewareVars, clientVars, ipfsVars>>

\* the promise request q awaits resolves
RequestResolved(q) ==
  /\ requests[q].status = "running"
  /\ LET request == requests[q] IN
     CASE request.op = "verify" ->
            /\ requests' = [requests EXCEPT ![q] = afterVerifyRecord(ledger, request)]
            /\ UNCHANGED ledger
       [] request.op # "verify" /\ request.pc = "call" ->
            /\ requests' = [requests EXCEPT ![q] = afterAccessSubmitted(ledger, request)]
            /\ ledger' = [ledger EXCEPT !.txs =
                 Append(@, [fn |-> request.op, run |-> 0,
                            args |-> [recordId |-> request.argument, viewer |-> request.viewer],
                            state |-> "submitted", logs |-> <<>>])]
       [] request.op # "verify" /\ request.pc = "wait" ->
            /\ requests' = [requests EXCEPT ![q] = afterAccessWait(request)]
            /\ ledger' = [ledger EXCEPT !.txs[request.tx].state = "confirmed"]
  /\ lastOp' = "requestResolved"
  /\ UNCHANGED <<middlewareVars, config, runs, archive, ipfsVars>>

\* the promise request q awaits rejects with an error of the given code
RequestRejected(q, code) ==
  /\ requests[q].status = "running"
  /\ requests' = [requests EXCEPT ![q] = requestCatch(@, Rejection(code))]
  /\ ledger' = IF requests[q].pc = "wait"
                 THEN [ledger EXCEPT !.txs[requests[q].tx].state = "failed"]
                 ELSE ledger
  /\ lastOp' = "requestRejected"
  /\ UNCHANGED <<middlewareVars, config, runs, archive, ipfsVars>>

\* the other calls of a client, made while its first record() or
\* batchRecord() call goes on from the confirmation of its anchor
NextAccess ==
  \/ \E r \in Runs : \E logs \in ConfirmationLogs(runs[r], r), cb \in CallbackOutcomes :
       StepResolved(r, logs, cb)
  \/ \E r \in Runs, code \in ErrorCodes : StepRejected(r, code)
  \/ \E id \in RecordIds : CallVerify(id)
  \/ \E op \in AccessOps, id \in RecordIds, viewer \in Viewers : CallAccess(op, id, viewer)
  \/ \E data \in FingerprintInputs : Fingerprint(data)
  \/ \E q \in 1..Len(requests) : RequestResolved(q)
  \/ \E q \in 1..Len(requests), code \in ErrorCodes : RequestRejected(q, code)

\* a client without callbacks whose first call, a record() of any
\* visibility or a batchRecord(), awaits the confirmation of its anchor
InitAccess ==
  /\ MiddlewareConstructed(MakeOptions(0, 0, NoPatterns))
  /\ config = ProofConfig("false", FALSE, FALSE, FALSE)
  /\ \E op \in {"record", "batchRecord"}, n \in BatchCounts, v \in VisibilityOptions :
       /\ op = "record" => n = 1
       /\ op = "batchRecord" => v = Undefined
       /\ LET w == AwaitingConfirmation(op, n, v) IN
            /\ runs = w.runs
            /\ ledger = w.ledger
            /\ archive = w.archive
  /\ IpfsIdle

SpecAccess == InitAccess /\ [][NextAccess]_vars

----------------------------------------------------------------------------
(* IPFSService: upload, retrieve, isAvailable *)

\* Texts are sequences of characters; a marker, a key, an initialisation
\* vector, a JSON keyword and an indented line break count as one character.

\* JSON values: <<type, value>>
JsonNull == <<"null", 0>>
JsonBool(b) == <<"bool", b>>
JsonNumber(n) == <<"num", n>>
JsonString(text) == <<"str", text>>
JsonArray(n) == <<"arr", <<n>>>>
JsonObject(n) == <<"obj", <<"a", n>>>>

\* the texts of the string payloads
StringTexts == {<<>>, <<"a">>, <<"1">>}

\* the payloads handed to upload
Payloads ==
  {JsonNull, JsonBool(TRUE), JsonNumber(1), JsonArray(1), JsonObject(1)}
    \cup {JsonString(t) : t \in StringTexts}

\* JSON.stringify(data, null, 2)
stringify(v) ==
  CASE v[1] = "null" -> <<"null">>
    [] v[1] = "bool" -> IF v[2] THEN <<"true">> ELSE <<"false">>
    [] v[1] = "num" -> NumberToString(v[2])
    [] v[1] = "str" -> <<"\"">> \o v[2] \o <<"\"">>
    [] v[1] = "arr" -> <<"[", "\n  ">> \o NumberToString(v[2][1]) \o <<"\n", "]">>
    [] v[1] = "obj" -> <<"{", "\n  ", "\"", v[2][1], "\"", ":", " ">>
                         \o NumberToString(v[2][2]) \o <<"\n", "}">>

\* JSON.parse on the texts the model stores: a text is JSON exactly when it
\* is the text of one of these values, and then parses to that value
Parseable == Payloads \cup {JsonBool(FALSE)}

parses(text) == \E v \in Parseable : stringify(v) = text

parse(text) == CHOOSE v \in Parseable : stringify(v) = text

\* try { return JSON.parse(content) } catch { return content }
parseOrText(content) ==
  IF parses(content) THEN parse(content) ELSE JsonString(content)

\* typeof data === 'string' ? data : JSON.stringify(data, null, 2)
contentOf(data) ==
  IF data[1] = "str" THEN data[2] ELSE stringify(data)

\* process.env.ENCRYPTION_KEY: the empty text when it is not set
NoKey == ""
Keys == {NoKey, "k1"}

\* crypto.randomBytes(12)
IVs == {"iv1", "iv2"}

\* AES-256-GCM under the key and the vector, behind the version marker
encryptedText(content, key, iv) == <<"ENCRYPTED_V2:", key, iv>> \o content

\* the legacy base64 form
legacyText(content) == <<"ENCRYPTED:", "base64">> \o content

Threw == <<"threw">>

\* encrypt(content)
encrypt(content, key, iv) ==
  IF key = NoKey THEN Threw ELSE encryptedText(content, key, iv)

\* Buffer.from(encoded, 'base64').toString('utf8')
base64Decode(encoded) ==
  IF encoded # <<>> /\ Head(encoded) = "base64" THEN Tail(encoded) ELSE <<"?">>

\* decrypt(content): the legacy form is decoded, a text without the version
\* marker is returned as it is, and the cipher refuses a text made under
\* another key
decrypt(content, key) ==
  IF key = NoKey THEN Threw
  ELSE IF StartsWith(content, <<"ENCRYPTED:">>) THEN base64Decode(Tail(content))
  ELSE IF ~StartsWith(content, <<"ENCRYPTED_V2:">>) THEN content
  ELSE IF Len(content) >= 3 /\ content[2] = key THEN SubSeq(content, 4, Len(content))
  ELSE Threw

NoCall ==
  [op |-> "none", payload |-> JsonNull, option |-> FALSE, cid |-> <<>>,
   outcome |-> "none", handed |-> FALSE, added |-> <<>>, value |-> JsonNull,
   chunks |-> <<>>, throws |-> FALSE, via |-> "direct", envKey |-> NoKey]

\* upload(data, {encrypt}): the content handed to client.add and the result
upload(data, encryptOption, key, iv, addSucceeds) ==
  LET content == contentOf(data)
      finalContent == IF encryptOption /\ key # NoKey
                        THEN encrypt(content, key, iv)
                        ELSE content
      call == [NoCall EXCEPT !.op = "upload", !.payload = data, !.option = encryptOption,
                             !.handed = TRUE, !.added = finalContent, !.envKey = key]
  IN IF addSucceeds
       THEN [call EXCEPT !.cid = cidOf(finalContent), !.outcome = "returned"]
       ELSE [call EXCEPT !.outcome = "threw"]

\* retrieve(cid, {decrypt}): cat yields the stored content or fails
retrieve(cid, decryptOption, key, stored) ==
  LET call == [NoCall EXCEPT !.op = "retrieve", !.cid = cid, !.option = decryptOption,
                             !.envKey = key]
      content == cid[2]
      plain == IF decryptOption /\ key # NoKey THEN decrypt(content, key) ELSE content
  IN IF cid \notin stored \/ plain = Threw
       THEN [call EXCEPT !.outcome = "threw"]
       ELSE [call EXCEPT !.outcome = "returned", !.value = parseOrText(plain)]

\* ProofClient.uploadToIPFS(data): the payload of a run goes through upload
\* with encrypt: this.config.encryptData || false
uploadToIPFS(cfg, data, key, iv, addSucceeds) ==
  [upload(data, cfg.encryptData, key, iv, addSucceeds) EXCEPT !.via = "uploadToIPFS"]

\* the certificate documents createCertificate renders
Certificates == {<<"<!DOCTYPE html>", "r1">>, <<"<!DOCTYPE html>", "r2">>}

\* createCertificate(data): the document goes through upload with
\* encrypt: false
createCertificate_Encrypts(html, key, iv, addSucceeds) ==
  [upload(JsonString(html), TRUE, key, iv, addSucceeds) EXCEPT !.via = "createCertificate"]
createCertificate(html, key, iv, addSucceeds) ==
  [upload(JsonString(html), FALSE, key, iv, addSucceeds) EXCEPT !.via = "createCertificate"]

\* what client.cat(cid, {length: 1}) yields: the lengths of its chunks, and
\* whether it throws after them
Streams ==
  [chunks : {<<>>, <<0>>, <<1>>, <<0, 1>>}, throws : BOOLEAN]

\* isAvailable(cid): the first chunk decides; a stream that ends or throws
\* before any chunk gives false
isAvailable_Rethrows(cid, stream) ==
  LET call == [NoCall EXCEPT !.op = "isAvailable", !.cid = cid, !.chunks = stream.chunks,
                             !.throws = stream.throws]
  IN IF stream.chunks # <<>>
       THEN [call EXCEPT !.outcome = "returned", !.value = JsonBool(stream.chunks[1] > 0)]
       ELSE IF stream.throws
         THEN [call EXCEPT !.outcome = "threw"]
         ELSE [call EXCEPT !.outcome = "returned", !.value = JsonBool(FALSE)]
isAvailable(cid, stream) ==
  LET call == [NoCall EXCEPT !.op = "isAvailable", !.cid = cid, !.chunks = stream.chunks,
                             !.throws = stream.throws]
  IN IF stream.chunks # <<>>
       THEN [call EXCEPT !.outcome = "returned", !.value = JsonBool(stream.chunks[1] > 0)]
       ELSE [call EXCEPT !.outcome = "returned", !.value = JsonBool(FALSE)]

\* content stored before the service starts: a plain text, a legacy text, a
\* text encrypted under the service's key and one under another key
StoredBefore ==
  {cidOf(<<"a">>), cidOf(legacyText(<<"a">>)),
   cidOf(encryptedText(<<"a">>, "k1", "iv1")),
   cidOf(encryptedText(<<"a">>, "k2", "iv1"))}

\* a locator nothing is stored under
UnknownCid == cidOf(<<"?">>)

\* calls of the service explored per run
MaxIpfsCalls == 2

\* new IPFSService(config): the constructor reads the gateway and the
\* credentials from the environment; key is the encryption key the
\* environment holds at that moment
constructed(key) == [NoCall EXCEPT !.op = "constructor", !.envKey = key]

MayCall == Len(ipfsCalls) <= MaxIpfsCalls

Upload(data, encryptOption, iv, addSucceeds) ==
  /\ MayCall
  /\ LET call == upload(data, encryptOption, env.ENCRYPTION_KEY, iv, addSucceeds) IN
       /\ ipfsCalls' = Append(ipfsCalls, call)
       /\ archive' = IF call.outcome = "returned" THEN archive \cup {call.cid} ELSE archive
  /\ lastOp' = "upload"
  /\ UNCHANGED <<middlewareVars, config, runs, ledger, env, uploadBatchRun, requests>>

\* the service is called with a call record made by upload, uploadToIPFS
\* or createCertificate
Stores(call, name) ==
  /\ MayCall
  /\ ipfsCalls' = Append(ipfsCalls, call)
  /\ archive' = IF call.outcome = "returned" THEN archive \cup {call.cid} ELSE archive
  /\ lastOp' = name
  /\ UNCHANGED <<middlewareVars, config, runs, ledger, env, uploadBatchRun, requests>>

UploadToIPFS(data, iv, addSucceeds) ==
  Stores(uploadToIPFS(config, data, env.ENCRYPTION_KEY, iv, addSucceeds), "uploadToIPFS")

CreateCertificate(html, iv, addSucceeds) ==
  Stores(createCertificate(html, env.ENCRYPTION_KEY, iv, addSucceeds), "createCertificate")

Retrieve(cid, decryptOption) ==
  /\ MayCall
  /\ ipfsCalls' = Append(ipfsCalls, retrieve(cid, decryptOption, env.ENCRYPTION_KEY, archive))
  /\ lastOp' = "retrieve"
  /\ UNCHANGED <<middlewareVars, clientVars, env, uploadBatchRun, requests>>

IsAvailable(cid, stream) ==
  /\ MayCall
  /\ ipfsCalls' = Append(ipfsCalls, isAvailable(cid, stream))
  /\ lastOp' = "isAvailable"
  /\ UNCHANGED <<middlewareVars, clientVars, env, uploadBatchRun, requests>>

InitArchive ==
  /\ MiddlewareConstructed(MakeOptions(0, 0, NoPatterns))
  /\ \E encryptData \in BOOLEAN : config = ProofConfig(Undefined, FALSE, FALSE, encryptData)
  /\ runs = [r \in Runs |-> IdleRun]
  /\ ledger = [allowance |-> 0, txs |-> <<>>]
  /\ archive = StoredBefore
  /\ \E key \in Keys :
       /\ env = [ENCRYPTION_KEY |-> key]
       /\ ipfsCalls = <<constructed(key)>>
  /\ uploadBatchRun = NoUploadBatch
  /\ requests = <<>>

NextArchive ==
  \/ \E data \in Payloads, e \in BOOLEAN, iv \in IVs, ok \in BOOLEAN : Upload(data, e, iv, ok)
  \/ \E iv \in IVs, ok \in BOOLEAN : UploadToIPFS(JsonObject(1), iv, ok)
  \/ \E html \in Certificates, iv \in IVs, ok \in BOOLEAN : CreateCertificate(html, iv, ok)
  \/ \E cid \in archive \cup {UnknownCid}, d \in BOOLEAN : Retrieve(cid, d)
  \/ \E cid \in archive \cup {UnknownCid}, stream \in Streams : IsAvailable(cid, stream)

SpecArchive == InitArchive /\ [][NextArchive]_vars

\* process.env.ENCRYPTION_KEY is set, changed or removed while the service
\* is in use
SetEnv(key) ==
  /\ key # env.ENCRYPTION_KEY
  /\ env' = [ENCRYPTION_KEY |-> key]
  /\ lastOp' = "setEnv"
  /\ UNCHANGED <<middlewareVars, clientVars, ipfsCalls, uploadBatchRun, requests>>

NextEnvironment ==
  \/ NextArchive
  \/ \E key \in Keys : SetEnv(key)

SpecEnvironment == InitArchive /\ [][NextEnvironment]_vars

----------------------------------------------------------------------------
(* IPFSService: uploadBatch *)

\* records per uploadBatch call
MaxBatchRecords == 7

\* const batchSize = 5
UploadWindow == 5

\* records.slice(i, i + batchSize), as positions of the input list
windowOf_Unbounded(i, count) == {k \in 1..count : k > i}
windowOf(i, count) == {k \in 1..count : k > i /\ k <= i + UploadWindow}

\* the result of the upload of the k-th record
resultOf(k) == cidOf(<<"upload", k>>)

\* uploadBatch(records) up to its first await: the loop issues the uploads
\* of the first window, or returns at once for an empty list
uploadBatch(count) ==
  IF count = 0
    THEN [NoUploadBatch EXCEPT !.status = "resolved"]
    ELSE [NoUploadBatch EXCEPT !.status = "running", !.count = count,
                               !.inFlight = windowOf(0, count)]

\* the upload of record k settles: Promise.all rejects with the first
\* failure, and resolves when the whole window is done; then the results
\* are pushed in input order and the next window is issued
uploadSettled(run, k, ok) ==
  LET settled == [run EXCEPT !.inFlight = @ \ {k},
                             !.completed = IF ok THEN @ \cup {k} ELSE @,
                             !.failed = IF ok THEN @ ELSE @ \cup {k}]
      window == windowOf(run.i, run.count)
      next == run.i + UploadWindow
  IN IF run.status # "running" THEN settled
     ELSE IF ~ok THEN [settled EXCEPT !.status = "rejected"]
     ELSE IF ~(window \subseteq settled.completed) THEN settled
     ELSE LET pushed == [settled EXCEPT
                           !.results = [j \in 1..(Len(run.results) + Cardinality(window)) |->
                                          IF j <= Len(run.results) THEN run.results[j]
                                          ELSE resultOf(run.i + (j - Len(run.results)))],
                           !.i = next]
          IN IF next < run.count
               THEN [pushed EXCEPT !.inFlight = windowOf(next, run.count)]
               ELSE [pushed EXCEPT !.status = "resolved"]

CallUploadBatch(count) ==
  /\ uploadBatchRun.status = "idle"
  /\ uploadBatchRun' = uploadBatch(count)
  /\ lastOp' = "uploadBatch"
  /\ UNCHANGED <<middlewareVars, clientVars, env, ipfsCalls, requests>>

UploadSettles(k, ok) ==
  /\ k \in uploadBatchRun.inFlight
  /\ uploadBatchRun' = uploadSettled(uploadBatchRun, k, ok)
  /\ archive' = IF ok THEN archive \cup {resultOf(k)} ELSE archive
  /\ lastOp' = "uploadSettles"
  /\ UNCHANGED <<middlewareVars, config, runs, ledger, env, ipfsCalls, requests>>

InitUploadBatch ==
  /\ MiddlewareConstructed(MakeOptions(0, 0, NoPatterns))
  /\ ClientConstructed(Undefined, 0)

NextUploadBatch ==
  \/ \E n \in 0..MaxBatchRecords : CallUploadBatch(n)
  \/ \E k \in 1..MaxBatchRecords, ok \in BOOLEAN : UploadSettles(k, ok)

SpecUploadBatch == InitUploadBatch /\ [][NextUploadBatch]_vars

TypeOK ==
  /\ options.batchInterval \in BatchIntervals
  /\ options.batchSize \in BatchSizes
  /\ captured \in Nat
  /\ Len(batchQueue) <= captured

----------------------------------------------------------------------------
(* Properties of the batching queue *)

Occurrences(seq, x) == Cardinality({i \in 1..Len(seq) : seq[i] = x})

RECURSIVE HandedFrom(_, _, _)
HandedFrom(calls, k, id) ==
  IF k > Len(calls) THEN 0
  ELSE Occurrences(calls[k].batch, id) + HandedFrom(calls, k + 1, id)

\* number of times exchange id was a member of a batch given to batchRecord
Handed(id) == HandedFrom(batchCalls, 1, id)

Threshold == IF options.batchSize = 0 THEN 100 ELSE options.batchSize

LastCall(calls) == calls[Len(calls)]

\* C1: in batch mode every captured exchange is, in every state, either still
\* in the queue or a member of exactly one batch handed to client.batchRecord:
\* never in two batches, never in a batch and the queue, never gone.
C1_QueuedOrHandedOnce ==
  BatchMode =>
    \A id \in 1..captured : Occurrences(batchQueue, id) + Handed(id) = 1

\* a size flush is still in flight; an exchange that arrived meanwhile was
\* flushed by the timer, and that later batch has already failed
C1_Witness ==
  /\ BatchMode
  /\ \E i, j \in 1..Len(batchCalls) :
       /\ i < j
       /\ batchCalls[i].trigger = "size" /\ batchCalls[i].result = "pending"
       /\ batchCalls[j].trigger = "timer" /\ batchCalls[j].result = "rejected"

\* a step in which a hook handed one more exchange to addToBatch
AddToBatchStep == BatchMode /\ captured' = captured + 1

\* C2: whenever addToBatch makes the queue length reach the batch size (100
\* when none is set), that same call invokes client.batchRecord exactly once,
\* with every queued exchange, and leaves the queue empty.
C2_SizeTrigger ==
  [][(AddToBatchStep /\ Len(batchQueue) + 1 >= Threshold) =>
       /\ Len(batchCalls') = Len(batchCalls) + 1
       /\ SubSeq(batchCalls', 1, Len(batchCalls)) = batchCalls
       /\ LastCall(batchCalls').batch = Append(batchQueue, captured + 1)
       /\ batchQueue' = <<>>]_vars

\* the hundredth exchange arrived with no batch size set and was flushed
\* together with the ninety-nine before it
C2_Witness ==
  /\ options.batchSize = 0
  /\ Len(batchCalls) = 1
  /\ batchCalls[1].trigger = "size"
  /\ Len(batchCalls[1].batch) = 100
  /\ batchQueue = <<>>
  /\ lastOp \in {"finish", "koa", "fastify"}

\* C3: when the timer fires on a queue of 1 to batchSize-1 exchanges, exactly
\* one client.batchRecord call is made, with all of them, and the queue is
\* left empty; when it fires on an empty queue no call is made.
C3_TimerTrigger ==
  [][(lastOp' = "timer" /\ batchTimer.armed) =>
       IF Len(batchQueue) >= 1
         THEN /\ Len(batchCalls') = Len(batchCalls) + 1
              /\ SubSeq(batchCalls', 1, Len(batchCalls)) = batchCalls
              /\ LastCall(batchCalls').batch = batchQueue
              /\ batchQueue' = <<>>
         ELSE /\ batchCalls' = batchCalls
              /\ batchQueue' = <<>>]_vars

\* the timer flushed a queue shorter than the batch size, nothing arrived
\* since, and the timer ran last without making another call
C3_Witness ==
  /\ lastOp = "timer"
  /\ batchQueue = <<>>
  /\ Len(batchCalls) = 1
  /\ batchCalls[1].trigger = "timer"
  /\ Len(batchCalls[1].batch) \in 1..(Threshold - 1)
  /\ batchCalls[1].result # "pending"

\* C4: in batch mode, with the timer firing again and again, every queued
\* exchange is eventually handed to client.batchRecord: whenever the queue
\* holds something, a state follows in which every exchange captured so far,
\* the queued ones included, has been a member of a batch given to
\* batchRecord.
C4_EventuallyHanded ==
  (batchQueue # <<>>) ~> (\A id \in 1..captured : Handed(id) > 0)

\* an exchange that waited in a queue below the batch size was handed over by
\* the timer
C4_Witness ==
  /\ BatchMode
  /\ \E i \in 1..Len(batchCalls) :
       /\ batchCalls[i].trigger = "timer"
       /\ Len(batchCalls[i].batch) < Threshold
       /\ Handed(batchCalls[i].batch[1]) > 0

\* C5: processBatch, and the timer callback, run on an empty queue make no
\* client.batchRecord call and leave the queue and the timer as they were.
C5_EmptyFlushNoOp ==
  [][(lastOp' \in {"processBatch", "timer"} /\ batchQueue = <<>>) =>
       /\ batchCalls' = batchCalls
       /\ batchQueue' = batchQueue
       /\ batchTimer' = batchTimer]_vars

\* processBatch ran last, and no call it ever made exists: it ran on an
\* empty queue
C5_Witness ==
  /\ lastOp = "processBatch"
  /\ batchQueue = <<>>
  /\ captured > 0
  /\ \A i \in 1..Len(batchCalls) : batchCalls[i].trigger # "direct"

\* C6: when client.batchRecord rejects, no exchange of that batch returns to
\* the queue or is handed to batchRecord again, and the exchanges queued
\* meanwhile stay queued as they are.
C6_NoRetryAfterFailure ==
  /\ [][lastOp' = "batchRejected" =>
          /\ batchQueue' = batchQueue
          /\ Len(batchCalls') = Len(batchCalls)
          /\ \A i \in 1..Len(batchCalls) : batchCalls'[i].batch = batchCalls[i].batch]_vars
  /\ [](\A i \in 1..Len(batchCalls) :
          batchCalls[i].result = "rejected" =>
            \A k \in 1..Len(batchCalls[i].batch) :
              /\ Occurrences(batchQueue, batchCalls[i].batch[k]) = 0
              /\ Handed(batchCalls[i].batch[k]) = 1)

\* a batch was just rejected while later exchanges sit in the queue
C6_Witness ==
  /\ lastOp = "batchRejected"
  /\ batchQueue # <<>>
  /\ \E i \in 1..Len(batchCalls) : batchCalls[i].result = "rejected"

----------------------------------------------------------------------------
(* Properties of the hooks *)

\* C7: a rejected client.record or client.batchRecord never leaves a hook:
\* every hook that awaited a settled record call has completed normally, and
\* the promise of every processBatch run whose batchRecord settled is
\* fulfilled.
C7_FailuresStayInside ==
  /\ \A i \in 1..Len(recordCalls) :
       /\ recordCalls[i].handler # "rejected"
       /\ recordCalls[i].result # "pending" => recordCalls[i].handler = "completed"
  /\ \A j \in 1..Len(batchCalls) :
       /\ batchCalls[j].flush # "rejected"
       /\ batchCalls[j].result # "pending" => batchCalls[j].flush = "fulfilled"

\* the express, koa and fastify hooks each saw client.record reject
C7_Witness ==
  \A h \in {"express", "koa", "fastify"} :
    \E i \in 1..Len(recordCalls) :
      /\ recordCalls[i].hook = h
      /\ recordCalls[i].result = "rejected"
      /\ recordCalls[i].handler = "completed"

\* C8: the express hook calls next() exactly once per request, and whatever
\* body the application passes to res.send / res.json reaches the original
\* method unchanged and the original's result is returned, for recorded and
\* unrecorded requests alike and whatever becomes of the recording.
C8_CallerSeesOriginal ==
  /\ res.phase # "idle" => res.nextCalls = 1
  /\ res.phase \in {"sent", "finished"} =>
       /\ res.forwarded = res.given
       /\ res.returned = OriginalReturn(res.method, res.given)

\* a recorded express request was answered and its recording failed
C8_Witness ==
  /\ res.phase = "finished"
  /\ res.wrapped
  /\ res.given = "ok"
  /\ \E i \in 1..Len(recordCalls) :
       recordCalls[i].hook = "express" /\ recordCalls[i].result = "rejected"

----------------------------------------------------------------------------
(* Properties of shouldRecord *)

Excluded(path) ==
  options.excludePatterns.defined /\ AnyMatch(path, options.excludePatterns.items)

Included(path) == AnyMatch(path, options.patterns.items)

\* C9: a path matching an exclude-pattern is never recorded, also when it
\* matches an include-pattern; with include-patterns configured a path is
\* recorded only if it matches one of them.
C9_ExcludeFirst ==
  lastOp = "shouldRecord" =>
    /\ Excluded(lastPath) => ~lastDecision
    /\ (options.patterns.defined /\ lastDecision) => Included(lastPath)

\* a path matching both an exclude- and an include-pattern was turned down
C9_Witness ==
  /\ lastOp = "shouldRecord"
  /\ Excluded(lastPath)
  /\ options.patterns.defined /\ Included(lastPath)
  /\ ~lastDecision

\* C10: with no include-pattern configured (patterns absent or an empty
\* list), every path matching no exclude-pattern is recorded.
C10_NoPatternsRecordsAll ==
  (/\ lastOp = "shouldRecord"
   /\ options.patterns.items = <<>>
   /\ ~Excluded(lastPath)) => lastDecision

\* the pattern read as the documentation describes it: "*" stands for any
\* run of characters, every other character for itself
RECURSIVE WildcardMatch(_, _)
WildcardMatch(pattern, str) ==
  IF pattern = <<>> THEN str = <<>>
  ELSE IF Head(pattern) = "*"
    THEN \/ WildcardMatch(Tail(pattern), str)
         \/ str # <<>> /\ WildcardMatch(pattern, Tail(str))
    ELSE /\ str # <<>>
         /\ Head(str) = Head(pattern)
         /\ WildcardMatch(Tail(pattern), Tail(str))

DocumentedMatch(path, pattern) ==
  IF Includes(pattern, "*")
    THEN WildcardMatch(pattern, path)
    ELSE path = pattern \/ StartsWith(path, pattern)

\* C11: a pattern without "*" matches a path exactly when the path equals it
\* or begins with it; a pattern with "*" matches exactly when the whole path
\* is the pattern with each "*" replaced by some run of characters and every
\* other character taken literally.
C11_PatternSemantics ==
  (lastOp = "shouldRecord" /\ options.patterns.defined /\ Len(options.patterns.items) = 1) =>
    lastDecision = DocumentedMatch(lastPath, options.patterns.items[1])

----------------------------------------------------------------------------
(* Routing of intercepted exchanges *)

\* C12: with a batch interval every qualifying exchange is queued exactly
\* once and client.record is never called; without one client.record is
\* called exactly once per qualifying exchange and nothing is ever queued.
C12_Routing ==
  IF BatchMode
    THEN /\ recordCalls = <<>>
         /\ \A id \in 1..captured : Occurrences(batchQueue, id) + Handed(id) = 1
    ELSE /\ batchQueue = <<>> /\ batchCalls = <<>>
         /\ Len(recordCalls) = captured
         /\ \A i \in 1..Len(recordCalls) : recordCalls[i].exchange = i

----------------------------------------------------------------------------
(* Properties of record() and batchRecord() *)

ClientTypeOK ==
  \A r \in Runs :
    /\ runs[r].status \in {"idle", "running", "resolved", "rejected"}
    /\ runs[r].status = "running" <=> runs[r].pc \notin {"none", "done"}

\* the steps of record() in the order of its source
RecordSteps ==
  <<"fetch", "text", "fingerprint", "upload", "recordPrice", "allowance",
    "approve", "approveWait", "store", "wait", "certificate", "receipt">>

AllowanceSteps == {"recordPrice", "allowance", "approve", "approveWait"}

Position(step) == CHOOSE i \in 1..Len(RecordSteps) : RecordSteps[i] = step

\* the steps no run of record() may leave out
Mandatory ==
  {"fetch", "text", "fingerprint", "upload", "store", "wait", "certificate",
   "receipt"} \cup (IF config.autoApprove THEN {"recordPrice", "allowance"} ELSE {})

StepsOf(run) == {run.log[i].step : i \in 1..Len(run.log)}

HasStep(run, step) == step \in StepsOf(run)

ResultOf(run, step) ==
  run.log[CHOOSE i \in 1..Len(run.log) : run.log[i].step = step].result

Failed(entry) == entry.result \in {"failed", "unsupported"}

AnchorTxs ==
  {i \in 1..Len(ledger.txs) : ledger.txs[i].fn \in {"storeAPIRecord", "storeBatchRecords"}}

\* C13: in every run of record() the steps are started in one fixed order
\* (exchange, body, fingerprints, archive, allowance if enabled, anchor,
\* confirmation, certificate, receipt), each at most once, none left out,
\* and a step is started only when every step before it has succeeded, so
\* at most the last one is unfinished; a resolved run has done them all.
C13_FixedOrder ==
  \A r \in Runs :
    LET run == runs[r] IN
    run.op = "record" =>
      /\ \A i, j \in 1..Len(run.log) :
           i < j => Position(run.log[i].step) < Position(run.log[j].step)
      /\ \A i \in 1..(Len(run.log) - 1) : run.log[i].result = "ok"
      /\ \A j \in 1..Len(run.log) : \A step \in Mandatory :
           Position(step) < Position(run.log[j].step) => HasStep(run, step)
      /\ ~config.autoApprove => StepsOf(run) \cap AllowanceSteps = {}
      /\ HasStep(run, "approveWait") => HasStep(run, "approve")
      /\ run.status = "resolved" =>
           /\ run.log[Len(run.log)].step = "receipt"
           /\ run.receipt # NoReceipt

\* a run of record() went through every step and resolved while the other
\* call was in progress
C13_Witness ==
  \E r, q \in Runs :
    /\ runs[r].op = "record" /\ runs[r].status = "resolved"
    /\ [i \in 1..Len(runs[r].log) |-> runs[r].log[i].step] =
         <<"fetch", "text", "fingerprint", "upload", "store", "wait",
           "certificate", "receipt">>
    /\ runs[q].status = "running" /\ runs[q].pc = "wait"

\* C14: when a step of record() or batchRecord() fails, it is the last step
\* the call ever starts (nothing later, nothing again), the call is rejected
\* and carries no receipt, and a rejected call never does anything more.
C14_FailureAborts ==
  /\ [](\A r \in Runs :
         LET run == runs[r] IN
         /\ \A i \in 1..Len(run.log) :
              Failed(run.log[i]) =>
                /\ i = Len(run.log)
                /\ run.status = "rejected"
                /\ run.receipt = NoReceipt
         /\ \A i, j \in 1..Len(run.log) :
              i # j => run.log[i].step # run.log[j].step
         /\ run.status = "resolved" => \A i \in 1..Len(run.log) : run.log[i].result = "ok")
  /\ [][\A r \in Runs : runs[r].status = "rejected" => runs'[r] = runs[r]]_vars

\* one call was rejected by a failed confirmation, another by a failed
\* certificate upload after its anchor was confirmed
C14_Witness ==
  \E r, q \in Runs :
    /\ runs[r].status = "rejected" /\ HasStep(runs[r], "wait")
    /\ ResultOf(runs[r], "wait") = "failed"
    /\ runs[q].status = "rejected" /\ HasStep(runs[q], "certificate")
    /\ ResultOf(runs[q], "certificate") = "failed"

\* a call whose allowance or anchor step failed after its upload succeeded
Orphaned(run) ==
  /\ run.status = "rejected"
  /\ run.ipfsHash # <<>>
  /\ run.log[Len(run.log)].step \in AllowanceSteps \cup {"store", "wait"}
  /\ Failed(run.log[Len(run.log)])

\* C15: when the allowance or anchor step fails after the upload succeeded,
\* the uploaded content stays in the archive (nothing is ever removed from
\* it), no confirmed anchor carries its locator and no receipt carries it.
C15_OrphanedArchive ==
  /\ [](\A r \in Runs :
         Orphaned(runs[r]) =>
           /\ runs[r].ipfsHash \in archive
           /\ \A i \in AnchorTxs :
                ledger.txs[i].args.ipfsHash = runs[r].ipfsHash =>
                  ledger.txs[i].state # "confirmed"
           /\ \A q \in Runs : runs[q].receipt.ipfsHash # runs[r].ipfsHash)
  /\ [][archive \subseteq archive']_vars

\* the confirmation of an anchor failed, and the allowance step of a batch
\* failed: both uploads are orphaned
C15_Witness ==
  \E r, q \in Runs :
    /\ Orphaned(runs[r]) /\ runs[r].log[Len(runs[r].log)].step = "wait"
    /\ Orphaned(runs[q]) /\ runs[q].log[Len(runs[q].log)].step = "recordPrice"
    /\ {runs[r].ipfsHash, runs[q].ipfsHash} \subseteq archive

\* the allowance step belongs to the call
AllowanceStepDue(run) ==
  /\ run.ipfsHash # <<>>
  /\ run.op = "batchRecord" \/ config.autoApprove

\* C16: a call that has archived its payload and owes the allowance step
\* reads the per-unit price from the registry; it submits an approval only
\* after reading an allowance, every approval is for the maximum amount, and
\* it submits the anchor only after price and allowance were read and any
\* approval it submitted was confirmed.
C16_AllowanceStep ==
  /\ \A r \in Runs :
       LET run == runs[r] IN
       AllowanceStepDue(run) =>
         /\ HasStep(run, "recordPrice")
         /\ ResultOf(run, "recordPrice") # "unsupported"
         /\ HasStep(run, "approve") =>
              HasStep(run, "allowance") /\ ResultOf(run, "allowance") = "ok"
         /\ HasStep(run, "store") =>
              /\ HasStep(run, "allowance") /\ ResultOf(run, "allowance") = "ok"
              /\ HasStep(run, "approve") =>
                   HasStep(run, "approveWait") /\ ResultOf(run, "approveWait") = "ok"
  /\ \A i \in 1..Len(ledger.txs) :
       ledger.txs[i].fn = "approve" => ledger.txs[i].args.amount = MaxUint256

\* C17: with autoApprove false no call reads the price, reads the allowance
\* or submits an approval.
C17_SkippedWhenDisabled ==
  ~config.autoApprove =>
    \A r \in Runs : StepsOf(runs[r]) \cap AllowanceSteps = {}

Approvals == {<<r, i>> \in Runs \X (1..20) :
                i <= Len(runs[r].log) /\ runs[r].log[i].step = "approve"}

StoredEvents(logs) == {i \in 1..Len(logs) : logs[i].name = "RecordStored"}

\* C20: the recordId of a receipt of record() is the recordId of the
\* RecordStored entry of the confirmation's logs when there is one, the
\* transaction hash otherwise, and never empty.
C20_RecordId ==
  \A r \in Runs :
    LET run == runs[r] IN
    (run.op = "record" /\ run.receipt # NoReceipt) =>
      LET logs == ledger.txs[run.tx].logs IN
      /\ run.receipt.recordId # <<>>
      /\ StoredEvents(logs) = {} => run.receipt.recordId = txHash(run.tx)
      /\ StoredEvents(logs) # {} =>
           \E i \in StoredEvents(logs) : run.receipt.recordId = logs[i].recordId

\* one receipt took its recordId from a RecordStored entry that was not the
\* first log entry, another fell back to the transaction hash
C20_Witness ==
  \E r, q \in Runs :
    /\ runs[r].status = "resolved" /\ runs[r].op = "record"
    /\ runs[r].receipt.recordId = <<"record", r>>
    /\ ledger.txs[runs[r].tx].logs[1].name = "Transfer"
    /\ runs[q].status = "resolved" /\ runs[q].op = "record"
    /\ runs[q].receipt.recordId = txHash(runs[q].tx)

----------------------------------------------------------------------------
(* Receipts, callback and returned response *)

DigitValue(c) == CHOOSE d \in 0..9 : Digits[d + 1] = c

\* the number a decimal string denotes
RECURSIVE ParseNumber(_)
ParseNumber(str) ==
  IF str = <<>> THEN 0
  ELSE 10 * ParseNumber(SubSeq(str, 1, Len(str) - 1)) + DigitValue(str[Len(str)])

BatchEvents(logs) == {i \in 1..Len(logs) : logs[i].name = "BatchRecordStored"}

HasReceipt(run) == run.receipt # NoReceipt

SinglePrice == ParseNumber(recordReceipt(IdleRun, <<>>, <<>>).proofTokens)

C23_CallbackOnce ==
  /\ [](\A r \in Runs :
         LET run == runs[r] IN
         run.op = "record" =>
           /\ (config.onRecord /\ run.status = "resolved") =>
                /\ run.notified = <<run.receipt>>
                /\ run.response.proof = run.receipt
           /\ (\E i \in 1..Len(run.log) : Failed(run.log[i])) => run.notified = <<>>
           /\ ~config.onRecord => run.notified = <<>>)
  /\ [][\A r \in Runs :
          (runs[r].op = "record" /\ runs'[r].notified # runs[r].notified) =>
            /\ runs[r].status = "running"
            /\ runs'[r].status # "running"
            /\ runs'[r].notified = <<runs'[r].receipt>>]_vars

\* one run resolved after calling onRecord once, another was rejected by a
\* failed certificate upload and called nothing
C23_Witness ==
  /\ config.onRecord
  /\ \E r, q \in Runs :
       /\ runs[r].op = "record" /\ runs[r].status = "resolved"
       /\ runs[r].notified = <<runs[r].receipt>>
       /\ runs[q].op = "record" /\ runs[q].status = "rejected"
       /\ HasStep(runs[q], "certificate") /\ ResultOf(runs[q], "certificate") = "failed"
       /\ runs[q].notified = <<>>

C25_ResponseUntouched ==
  \A r \in Runs :
    LET run == runs[r] IN
    (run.op = "record" /\ run.status = "resolved") =>
      /\ run.returned = run.response.id
      /\ run.response.proof = run.receipt
      /\ HasReceipt(run)
      /\ ~run.response.bodyUsed
      /\ run.clone.made /\ run.clone.bodyUsed

\* a run resolved with its response while another call, whose response had
\* been read before, was rejected at the clone
C25_Witness ==
  \E r, q \in Runs :
    /\ runs[r].op = "record" /\ runs[r].status = "resolved"
    /\ runs[r].returned = <<"response", r>> /\ ~runs[r].response.bodyUsed
    /\ runs[r].clone.bodyUsed
    /\ runs[q].op = "record" /\ runs[q].status = "rejected"
    /\ runs[q].response.bodyUsed /\ ~runs[q].clone.made

\* C35: with onError configured, a rejected record() or batchRecord() run
\* has called onError with the error it caught.
C35_ErrorCallback ==
  \A r \in Runs :
    (config.onError /\ runs[r].status = "rejected") =>
      /\ Len(runs[r].reported) >= 1
      /\ runs[r].reported[1] = runs[r].caught

\* the errors that carry the code of insufficient funds
InsufficientFunds(error) == error.code = "INSUFFICIENT_FUNDS"

\* what the claim asks a caught error to be surfaced as
Surfaced(caught, error) ==
  /\ InsufficientFunds(caught) =>
       /\ error = InsufficientTokens
       /\ error # caught
       /\ error # NetworkFailure
  /\ caught.code \notin {"INSUFFICIENT_FUNDS", "NETWORK_ERROR"} => error = caught

\* C36: a rejected record() / batchRecord() run and a rejected verify /
\* grantAccess / revokeAccess call reject with the insufficient-balance
\* error, which is neither the caught error nor the network error, when
\* the error they caught has the code of insufficient funds, and with the
\* caught error itself when that has a code the handler does not
\* recognise, or none.
C36_Reraise ==
  /\ \A r \in Runs :
       runs[r].status = "rejected" =>
         /\ runs[r].caught # NoError
         /\ Surfaced(runs[r].caught, runs[r].error)
  /\ \A q \in 1..Len(requests) :
       requests[q].status = "rejected" =>
         /\ requests[q].caught # NoError
         /\ Surfaced(requests[q].caught, requests[q].error)

\* a run was rejected for insufficient funds at the confirmation of its
\* anchor, one call likewise at its contract call, and another call with an
\* unrecognised code that came through unchanged
C36_Witness ==
  /\ runs[1].status = "rejected"
  /\ InsufficientFunds(runs[1].caught) /\ runs[1].error = InsufficientTokens
  /\ ledger.txs[runs[1].tx].state = "failed"
  /\ Len(requests) = 2
  /\ requests[1].status = "rejected"
  /\ InsufficientFunds(requests[1].caught) /\ requests[1].error = InsufficientTokens
  /\ requests[2].status = "rejected"
  /\ requests[2].caught.code = "CALL_EXCEPTION" /\ requests[2].error = requests[2].caught

\* the flushes whose client.batchRecord call has not settled
InFlight == {i \in 1..Len(batchCalls) : batchCalls[i].result = "pending"}

\* C38: in batch mode the queue holds fewer than batchSize exchanges (100
\* when none is set) when addToBatch returns, and every batch handed to
\* client.batchRecord holds between 1 and batchSize exchanges, whatever
\* the number of flushes in flight.
C38_QueueBound ==
  /\ [][AddToBatchStep => Len(batchQueue') < EffectiveBatchSize(options)]_vars
  /\ [](\A i \in 1..Len(batchCalls) :
         /\ Len(batchCalls[i].batch) >= 1
         /\ Len(batchCalls[i].batch) <= EffectiveBatchSize(options))

\* with a batch size of 2, addToBatch handed over a full batch and left
\* the queue empty while the flush the timer had started was in flight
C38_Witness ==
  /\ options.batchSize = 2
  /\ InFlight = {1, 2}
  /\ batchCalls[1].trigger = "timer" /\ Len(batchCalls[1].batch) = 1
  /\ batchCalls[2].trigger = "size" /\ Len(batchCalls[2].batch) = 2
  /\ batchQueue = <<>>
  /\ lastOp \in {"finish", "koa", "fastify"}

\* the storeBatchRecords transactions the node accepted
BatchAnchors == {i \in 1..Len(ledger.txs) : ledger.txs[i].fn = "storeBatchRecords"}

\* C39: the anchor of a batchRecord() of N records carries N request
\* digests and N response digests, the i-th of each being the fingerprint
\* of the i-th record given; the one locator it carries is that of the
\* archived document of the run, which lists the same records in the same
\* order under count = N.
C39_BatchAlignment ==
  \A i \in BatchAnchors :
    LET r == ledger.txs[i].run
        N == runs[r].count
        given == recordsOf(runs[r], r)
        args == ledger.txs[i].args
        document == args.ipfsHash[2][3]
    IN /\ Len(given) = N
       /\ Len(args.requestHash) = N /\ Len(args.responseHash) = N
       /\ \A k \in 1..N :
            /\ args.requestHash[k] = hashData(given[k].request)
            /\ args.responseHash[k] = hashData(given[k].response)
       /\ args.ipfsHash = runs[r].ipfsHash
       /\ args.ipfsHash \in archive
       /\ document.count = N
       /\ document.records = given

\* a batchRecord() of two records has its anchor confirmed
C39_Witness ==
  \E i \in BatchAnchors :
    /\ ledger.txs[i].state = "confirmed"
    /\ runs[ledger.txs[i].run].count = 2
    /\ runs[ledger.txs[i].run].status = "resolved"
    /\ Len(ledger.txs[i].args.requestHash) = 2

\* the certificate of a record() run could not be archived
LateFailure(run) ==
  /\ run.op = "record"
  /\ run.log # <<>>
  /\ run.log[Len(run.log)].step = "certificate"
  /\ Failed(run.log[Len(run.log)])

\* C40: when archiving the certificate fails, the run is rejected with the
\* error of the archive, returned nothing, left the response without a
\* receipt and did not call onRecord, while its anchor stays confirmed and
\* its payload stays archived; the failed step was tried once and no
\* further transaction was sent for the run.
C40_LateFailure ==
  \A r \in Runs :
    LateFailure(runs[r]) =>
      /\ runs[r].status = "rejected"
      /\ runs[r].error = UploadFailed
      /\ runs[r].returned = <<>>
      /\ runs[r].response.proof = NoReceipt
      /\ runs[r].receipt = NoReceipt
      /\ runs[r].notified = <<>>
      /\ ledger.txs[runs[r].tx].state = "confirmed"
      /\ ledger.txs[runs[r].tx].args.ipfsHash = runs[r].ipfsHash
      /\ runs[r].ipfsHash \in archive
      /\ Cardinality({i \in 1..Len(runs[r].log) : runs[r].log[i].step = "certificate"}) = 1
      /\ Cardinality({i \in AnchorTxs : ledger.txs[i].run = r}) = 1

\* with onRecord configured, the certificate of a confirmed anchor could not
\* be archived
C40_Witness ==
  \E r \in Runs :
    /\ LateFailure(runs[r])
    /\ config.onRecord
    /\ runs[r].recordId # <<>>
    /\ ledger.txs[runs[r].tx].state = "confirmed"

----------------------------------------------------------------------------
(* Properties of the IPFSService *)

CallsOf(op) == {i \in 1..Len(ipfsCalls) : ipfsCalls[i].op = op}

KeyConfigured == env.ENCRYPTION_KEY # NoKey

\* C26: an upload that asks for encryption while no key is configured
\* throws and hands nothing to storage.
C26_NoPlaintextFallback ==
  \A i \in CallsOf("upload") :
    (ipfsCalls[i].option /\ ~KeyConfigured) =>
      /\ ipfsCalls[i].outcome = "threw"
      /\ ~ipfsCalls[i].handed

\* C27: with a key configured, retrieving with decrypt what was uploaded
\* with encrypt returns the uploaded payload.
C27_RoundTrip ==
  KeyConfigured =>
    \A i \in CallsOf("upload") : \A j \in CallsOf("retrieve") :
      ( /\ i < j
        /\ ipfsCalls[i].option /\ ipfsCalls[i].outcome = "returned"
        /\ ipfsCalls[j].option /\ ipfsCalls[j].outcome = "returned"
        /\ ipfsCalls[j].cid = ipfsCalls[i].cid )
      => ipfsCalls[j].value = ipfsCalls[i].payload

HasVersionMarker(content) == StartsWith(content, <<"ENCRYPTED_V2:">>)
HasLegacyMarker(content) == StartsWith(content, <<"ENCRYPTED:">>)

\* the text a content with the version marker was made from
PlainOf(content) == SubSeq(content, 4, Len(content))

\* C28: a retrieve with decrypt that returns gives the decrypted text of a
\* stored content with the version marker, and for a stored content with no
\* marker the value a retrieve without decrypt gives.
C28_MarkerDetection ==
  \A j \in CallsOf("retrieve") :
    LET call == ipfsCalls[j]
        content == call.cid[2]
    IN (call.option /\ call.outcome = "returned") =>
         /\ HasVersionMarker(content) => call.value = parseOrText(PlainOf(content))
         /\ (~HasVersionMarker(content) /\ ~HasLegacyMarker(content)) =>
              call.value = retrieve(call.cid, FALSE, env.ENCRYPTION_KEY, archive).value

\* C29: isAvailable always returns a boolean and never throws; it returns
\* false when the stream yields nothing, whether it ends or throws, and true
\* only when the first chunk read is not empty.
C29_ProbeNeverRaises ==
  \A i \in CallsOf("isAvailable") :
    LET call == ipfsCalls[i] IN
    /\ call.outcome = "returned"
    /\ call.value \in {JsonBool(TRUE), JsonBool(FALSE)}
    /\ call.chunks = <<>> => call.value = JsonBool(FALSE)
    /\ call.value = JsonBool(TRUE) => (call.chunks # <<>> /\ call.chunks[1] > 0)

\* the probe answered false for a stream that threw at once and true for a
\* stream whose first chunk was not empty
C29_Witness ==
  \E i, j \in CallsOf("isAvailable") :
    /\ ipfsCalls[i].chunks = <<>> /\ ipfsCalls[i].throws
    /\ ipfsCalls[i].outcome = "returned" /\ ipfsCalls[i].value = JsonBool(FALSE)
    /\ ipfsCalls[j].chunks = <<1>> /\ ipfsCalls[j].value = JsonBool(TRUE)

Encrypted(call) == HasVersionMarker(call.added)

\* C31: the certificate is handed to storage as the plain document, whatever
\* encryptData and the key are; the payload of a run is handed over
\* encrypted when encryptData is set and a key is present, and plain when
\* encryptData is not set.
C31_CertificatePlain ==
  \A i \in CallsOf("upload") :
    LET call == ipfsCalls[i] IN
    /\ call.via = "createCertificate" =>
         /\ ~call.option
         /\ call.added = call.payload[2]
    /\ call.via = "uploadToIPFS" =>
         /\ call.option = config.encryptData
         /\ (config.encryptData /\ call.envKey # NoKey) => Encrypted(call)
         /\ ~config.encryptData => call.added = stringify(call.payload)

\* with encryptData set and a key present, a payload was stored encrypted
\* and a certificate was stored plain
C31_Witness ==
  /\ config.encryptData
  /\ \E i, j \in CallsOf("upload") :
       /\ ipfsCalls[i].via = "uploadToIPFS" /\ ipfsCalls[i].envKey # NoKey
       /\ ipfsCalls[i].outcome = "returned" /\ Encrypted(ipfsCalls[i])
       /\ ipfsCalls[j].via = "createCertificate" /\ ipfsCalls[j].envKey # NoKey
       /\ ipfsCalls[j].outcome = "returned" /\ ~Encrypted(ipfsCalls[j])
       /\ ipfsCalls[j].cid \in archive

----------------------------------------------------------------------------
(* Properties of verify, grantAccess, revokeAccess, hashData *)

RequestsOf(op) == {q \in 1..Len(requests) : requests[q].op = op}

\* the client and the ledger and archive it works on
ClientState == <<config, runs, ledger, archive>>

Verified == {q \in RequestsOf("verify") : requests[q].status = "resolved"}

\* C33: no step of a verify call changes the client, the ledger or the
\* archive; a verify that resolves while the registry holds the record
\* returns that record, so every verify of a confirmed anchor returns the
\* same record; and a verify that resolves while the registry holds no
\* record under the identifier returns null.
C33_IdempotentVerify ==
  /\ [][\A q \in 1..Len(requests') :
         (requests'[q].op = "verify" /\ (q > Len(requests) \/ requests'[q] # requests[q])) =>
           /\ UNCHANGED ClientState
           /\ requests'[q].status = "resolved" =>
                requests'[q].result =
                  IF registered(ledger, requests'[q].argument) = {}
                    THEN Null
                    ELSE APIRecord(verifyRecord(ledger, requests'[q].argument).record)]_vars
  /\ [](\A p, q \in Verified :
         (requests[p].argument = requests[q].argument
            /\ requests[p].result # Null /\ requests[q].result # Null) =>
           requests[p].result = requests[q].result)

\* the record of the first run was verified twice after its confirmation,
\* with the same answer, the second time after the run had ended
C33_Witness ==
  /\ Len(requests) = 2
  /\ Verified = {1, 2}
  /\ requests[1].argument = <<"record", 1>> /\ requests[2].argument = <<"record", 1>>
  /\ requests[1].result # Null
  /\ requests[1].result = requests[2].result
  /\ requests[1].result[2].ipfsHash = runs[1].ipfsHash
  /\ runs[1].status \in {"resolved", "rejected"}
  /\ lastOp = "requestResolved"

AccessCalls == RequestsOf("grantAccess") \cup RequestsOf("revokeAccess")

\* C34: a grantAccess / revokeAccess call that has resolved returned the
\* hash of its transaction and that transaction is confirmed; a call whose
\* submission or confirmation was rejected is rejected with an error and
\* returned nothing; and no call resolves in the step in which the node
\* accepts its transaction.
C34_AccessConfirmed ==
  /\ [](\A q \in AccessCalls :
         LET request == requests[q] IN
         /\ request.status = "resolved" =>
              /\ request.tx \in 1..Len(ledger.txs)
              /\ ledger.txs[request.tx].fn = request.op
              /\ ledger.txs[request.tx].state = "confirmed"
              /\ request.result = txHash(request.tx)
              /\ request.caught = NoError
         /\ request.caught # NoError =>
              /\ request.status = "rejected"
              /\ request.error # NoError
              /\ request.result = <<>>
         /\ (request.tx # 0 /\ ledger.txs[request.tx].state = "failed") =>
              request.status = "rejected")
  /\ [][\A q \in 1..Len(requests) :
         (requests[q].op \in AccessOps /\ requests[q].pc = "call") =>
           requests'[q].status # "resolved"]_vars

\* one call was rejected at the confirmation of its transaction and another
\* resolved with the hash of its confirmed transaction
C34_Witness ==
  \E p, q \in AccessCalls :
    /\ requests[p].status = "rejected" /\ requests[p].tx # 0
    /\ ledger.txs[requests[p].tx].state = "failed"
    /\ requests[q].status = "resolved"
    /\ ledger.txs[requests[q].tx].state = "confirmed"
    /\ requests[q].result = txHash(requests[q].tx)

\* C37: whatever key the environment held when the service was constructed
\* is the key in effect for every later upload and retrieve: an upload that
\* asks for encryption hands over content encrypted under that key exactly
\* when that key was set.
C37_KeyAtConstruction ==
  \A c \in CallsOf("constructor") :
    LET k == ipfsCalls[c].envKey IN
    \A i \in CallsOf("upload") \cup CallsOf("retrieve") :
      /\ ipfsCalls[i].envKey = k
      /\ (ipfsCalls[i].op = "upload" /\ ipfsCalls[i].option) =>
           /\ Encrypted(ipfsCalls[i]) <=> k # NoKey
           /\ Encrypted(ipfsCalls[i]) => ipfsCalls[i].added[2] = k

\* the uploads uploadBatch has issued so far
Issued == uploadBatchRun.inFlight \cup uploadBatchRun.completed \cup uploadBatchRun.failed

\* the first position of the window record k belongs to, minus one
WindowStart(k) == ((k - 1) \div 5) * 5

\* C30: uploadBatch has at most 5 uploads in flight; an upload is issued
\* only when every upload of the earlier windows has completed; and the
\* list a resolved call returns has one result per record, in input order.
C30_BoundedWindow ==
  /\ Cardinality(uploadBatchRun.inFlight) <= 5
  /\ \A k \in Issued : \A j \in 1..WindowStart(k) : j \in uploadBatchRun.completed
  /\ uploadBatchRun.status = "resolved" =>
       /\ uploadBatchRun.inFlight = {}
       /\ uploadBatchRun.results = [k \in 1..uploadBatchRun.count |-> resultOf(k)]

\* the second window is in flight after the five uploads of the first have
\* completed
C30_Witness ==
  /\ uploadBatchRun.status = "running"
  /\ uploadBatchRun.count = 7
  /\ uploadBatchRun.completed = 1..5
  /\ uploadBatchRun.inFlight = {6, 7}
  /\ Len(uploadBatchRun.results) = 5

====
